---- MODULE Spec2Model ----
(***************************************************************************)
(* The double-buffered gallery rotation scheduler of                       *)
(* "Kinect 3D Splat Displacement/op_scripts/gallery_rotation.py": the      *)
(* Script CHOP callback onCook, one call per rendered frame (a tick).      *)
(*                                                                         *)
(* Units.  Cycle positions (timer_fraction) are integers in hundredths.    *)
(* Wall-clock time (absTime.seconds) is an integer number of seconds.      *)
(* Real-valued outputs are integers in units of 1/Scale, Scale being       *)
(* BLEND_DURATION^3, the denominator of _smoothstep(elapsed/BLEND_DURATION)*)
(* for a whole number of elapsed seconds; so every value below is exact.   *)
(* Point coordinates of the live data are integers in tenths of a          *)
(* millimetre.  File names are the integers 1..MaxScenes ("1.ply", ...),   *)
(* 0 is a directory entry that is not a .ply file (bounds.json).           *)
(***************************************************************************)
EXTENDS Integers, Sequences, FiniteSets, TLC

VARIABLES
    storage,    \* scriptOp.storage: the persisted key-value store
    slots,      \* <<pointfilein2.par.file, pointfilein3.par.file>>, 0 = never set
    chans,      \* the Script CHOP's output channels, in append order
    log,        \* the collaborator commands and output operations of the last tick, in order
    now,        \* absTime.seconds at the last tick
    tick,       \* the last tick's path through onCook: "none" before the first tick,
                \* "noTimer", "fewScenes", "init", "rotate" or "error" (an exception)
    preloadsSinceWrap,  \* observer: preload commands since the last detected timer reset
    lowSinceSwap,       \* observer: a tick after the last blend completion had fraction < 0.5
    lastSwitch,         \* observer: the switchIndex the last enabled tick published
    delayedRuns,        \* the scripts run(..., delayFrames=1) has scheduled for the next frame
    initListing,        \* observer: what _getSceneFiles() returned on the initialising tick
    call,       \* a call of a module function made outside onCook: its name and arguments
    ret,        \* the value that call returned, << >> while it has not returned
    jitter,     \* observer: the last tick read a cycle position below the one before it,
                \* by ResetTolerance at most
    framesSinceLoad     \* observer: rotating ticks of the legacy script since its last preload,
                        \* -1 before the first, counted up to FrameCountCap

vars ==
    <<storage, slots, chans, log, now, tick, preloadsSinceWrap, lowSinceSwap, lastSwitch,
      delayedRuns, initListing, call, ret, jitter, framesSinceLoad>>

---------------------------------------------------------------------------
(* Bounds of the model *)

MaxScenes == 3
MaxTime == 11
MaxDt == 3

(* Program constants *)

BLEND_DURATION == 5
STORAGE_VERSION == 14
LEGACY_STORAGE_VERSION == 2
ResetTolerance == 10
ArmBelow == 50
PreloadAbove == 5
BlendFrom == 90
DISPLACE_RADIUS_SCALE_X2 == 3

Scale == BLEND_DURATION * BLEND_DURATION * BLEND_DURATION

DEFAULT_SPHERE == [center |-> <<0, 0, 0>>, radius |-> 50]

---------------------------------------------------------------------------
(* Python dict helpers *)

Get(st, k, d) == IF k \in DOMAIN st THEN st[k] ELSE d

Put(st, k, v) == IF k \in DOMAIN st THEN [st EXCEPT ![k] = v] ELSE [x \in DOMAIN st \cup {k} |-> IF x = k THEN v ELSE st[x]]

EmptyDict == [x \in {} |-> 0]

\* sequencing: F applied to the value of x
Bind(x, F(_)) == CHOOSE r \in {F(v) : v \in {x}} : TRUE

Event(op, a, b) == [op |-> op, a |-> a, b |-> b]

Emit(w, op, a, b) == [w EXCEPT !.log = Append(@, Event(op, a, b))]

\* an exception leaving onCook: the tick ends there
Raise(w) == Emit(w, "raise", 0, 0)

---------------------------------------------------------------------------
(* Pure functions *)

RECURSIVE SortedSeq(_)
SortedSeq(S) ==
    IF S = {} THEN << >>
    ELSE LET m == CHOOSE x \in S : \A y \in S : x <= y
         IN  <<m>> \o SortedSeq(S \ {m})

IsPly(f) == f >= 1

\* dir: [exists |-> BOOLEAN, entries |-> set of names]
GetSceneFiles(dir) ==
    IF dir.exists THEN SortedSeq({f \in dir.entries : IsPly(f)}) ELSE << >>

\* manifest: [readable |-> BOOLEAN, json |-> dict]; an unreadable one is a
\* missing file or one json.load cannot decode
LoadBounds(manifest) == IF manifest.readable THEN manifest.json ELSE EmptyDict

\* _getSphere falling back to a unit sphere
GetSphereUnitFallback(bounds, filename) ==
    Get(bounds, filename, [center |-> <<0, 0, 0>>, radius |-> 1])

GetSphere(bounds, filename) == Get(bounds, filename, DEFAULT_SPHERE)

Clamp(lo, x, hi) == IF x < lo THEN lo ELSE IF x > hi THEN hi ELSE x

\* the cubic with a wrong coefficient: 3t^2 - 4t^3
SmoothstepWrongCubic(elapsed) ==
    LET t == Clamp(0, elapsed, BLEND_DURATION)
    IN  t * t * (3 * BLEND_DURATION - 4 * t)

\* _smoothstep(elapsed / BLEND_DURATION) * Scale
Smoothstep(elapsed) ==
    LET t == Clamp(0, elapsed, BLEND_DURATION)
    IN  t * t * (3 * BLEND_DURATION - 2 * t)

\* _lerpSphere taking b's radius whatever t is
LerpSphereInTargetRadius(a, b, n, d) ==
    [center |-> [i \in 1..3 |-> a.center[i] * d + (b.center[i] - a.center[i]) * n],
     radius |-> b.radius * d]

\* _lerpSphere(a, b, n / d), the result in units of 1/d
LerpSphereIn(a, b, n, d) ==
    [center |-> [i \in 1..3 |-> a.center[i] * d + (b.center[i] - a.center[i]) * n],
     radius |-> a.radius * d + (b.radius - a.radius) * n]

\* _lerpSphere(a, b, tS / Scale), the result in units of 1/Scale
LerpSphere(a, b, tS) == LerpSphereIn(a, b, tS, Scale)

ScaledSphere(s) ==
    [center |-> [i \in 1..3 |-> s.center[i] * Scale], radius |-> s.radius * Scale]

\* int(x * 1000) of a coordinate given in tenths of a millimetre: truncation towards zero
Quantize(x) == IF x >= 0 THEN x \div 10 ELSE -((-x) \div 10)

Min(a, b) == IF a <= b THEN a ELSE b

\* null1: [present |-> BOOLEAN, points |-> sequence of <<x, y, z>>]; None is << >>
GetSceneFingerprint(null1) ==
    IF ~null1.present \/ Len(null1.points) = 0 THEN << >>
    ELSE LET positions == null1.points
             n == Len(positions)
             indices == <<0, n \div 2, Min(n - 1, 1000)>>
         IN  [k \in 1..3 |->
                 [c \in 1..3 |-> Quantize(positions[indices[k] + 1][c])]]

---------------------------------------------------------------------------
(* Collaborator commands.  A world w is [storage, slots, chans, log]; env is *)
(* what the tick finds outside: env.absent is the set of nodes op() does not *)
(* find on this tick.                                                        *)

\* _loadScene(inputIndex, filename)
LoadScene(w, env, inputIndex, filename) ==
    LET opName == IF inputIndex = 0 THEN "pointfilein2" ELSE "pointfilein3"
    IN  IF opName \in env.absent
        THEN Emit(w, "loadSceneSkipped", inputIndex, filename)
        ELSE Emit([w EXCEPT !.slots[inputIndex + 1] = filename],
                  "loadScene", inputIndex, filename)

\* _setRestPositions() cooking rest_pos_script at once, inside the tick
SetRestPositionsSynchronous(w, env) ==
    IF "rest_pos_script" \in env.absent
    THEN Emit(w, "setRestPositions", 0, 0)
    ELSE Emit(Emit(w, "setRestPositions", 1, 0), "cook", 0, 0)

\* _setRestPositions(): marks rest_pos_script dirty and schedules its forced
\* cook with run(..., delayFrames=1)
SetRestPositions(w, env) ==
    IF "rest_pos_script" \in env.absent
    THEN Emit(w, "setRestPositions", 0, 0)
    ELSE Emit(Emit(w, "setRestPositions", 1, 0), "runDelayed", 1, 0)

\* _resetFeedbackTextures()
ResetFeedbackTextures(w, env) ==
    LET w1 == Emit(w, "resetFeedbackTextures", 0, 0)
        w2 == IF "offset_feedback" \in env.absent THEN w1
              ELSE Emit(w1, "resetpulse", 1, 0)
    IN  IF "velocity_feedback" \in env.absent THEN w2
        ELSE Emit(w2, "resetpulse", 2, 0)

\* the read of null1 by _getSceneFingerprint(); the event holds the value returned
ReadFingerprint(w, env) == Emit(w, "readFingerprint", 0, GetSceneFingerprint(env.null1))

---------------------------------------------------------------------------
(* Camera framing, in fixed point: angles in whole degrees, sines in 1e-4  *)

SinTable == <<0, 1736, 3420, 5000, 6428, 7660, 8660, 9397, 9848, 10000>>

\* sin of k*10 degrees, k in 0..35, times 1e4
Sin10(k) ==
    IF k <= 9 THEN SinTable[k + 1]
    ELSE IF k <= 18 THEN SinTable[18 - k + 1]
    ELSE IF k <= 27 THEN -SinTable[k - 18 + 1]
    ELSE -SinTable[36 - k + 1]

Cos10(k) == Sin10((k + 9) % 36)

FRAMING_MARGIN_PCT == 1
CAMERA_ELEVATION == 20
ORBIT_SPEED == 10
DEFAULT_VFOV == 26

\* tan(vFov / 2) times 1e4, for the vertical fields of view the model's cameras give
TanHalf(vFov) == IF vFov = DEFAULT_VFOV THEN 2309 ELSE 5625

\* the camera distance without the framing margin
CameraDistanceNoMargin(radius, vFov) ==
    (radius * 100 * 100) \div TanHalf(vFov)

\* radius / tan(vFov/2) * (1 + FRAMING_MARGIN), rounded down; radius in any unit
CameraDistance(radius, vFov) ==
    (radius * (100 + FRAMING_MARGIN_PCT) * 100) \div TanHalf(vFov)

\* x * (a factor given in 1e-4), rounded towards zero
MulE4(x, fE4) ==
    LET p == x * fE4 IN IF p >= 0 THEN p \div 10000 ELSE -((-p) \div 10000)

---------------------------------------------------------------------------
(* The output channels *)

Clear(w) == Emit([w EXCEPT !.chans = << >>], "clear", 0, 0)

\* the appendChan calls of lines 129-140, in order, each setting its sample 0
AppendChans(w, values) ==
    [w EXCEPT !.chans = @ \o values,
              !.log = @ \o [i \in 1..Len(values) |-> Event("appendChan", Len(w.chans) + i, 0)]]

\* lines 129-140: the channels, in the order they are appended
ChannelNames ==
    <<"switchIndex", "sceneIndex", "nextSceneIndex", "camTx", "camTy", "camTz",
      "camRx", "camRy", "sceneCenterX", "sceneCenterY", "sceneCenterZ", "sceneRadius">>

\* _outputChannels(scriptOp, switchIndex, sceneIdx, nextSceneIdx, cameraSphere):
\* switchIndex and cameraSphere in units of 1/Scale, as are the camera
\* position and the scene centre; sceneRadius is in units of 1/(2*Scale)
OutputChannels(w, env, switchIndex, sceneIdx, nextSceneIdx, cameraSphere) ==
    LET vFov == Get(w.storage, "vFov", DEFAULT_VFOV)
        radius == cameraSphere.radius
        dist == CameraDistance(radius, vFov)
        orbitDeg == (env.now * ORBIT_SPEED) % 360
        horizDist == MulE4(dist, Cos10(CAMERA_ELEVATION \div 10))
        center == cameraSphere.center
        values == <<
            [name |-> "switchIndex", val |-> switchIndex],
            [name |-> "sceneIndex", val |-> sceneIdx],
            [name |-> "nextSceneIndex", val |-> nextSceneIdx],
            [name |-> "camTx", val |-> MulE4(horizDist, Sin10(orbitDeg \div 10))],
            [name |-> "camTy", val |-> MulE4(dist, Sin10(CAMERA_ELEVATION \div 10))],
            [name |-> "camTz", val |-> MulE4(horizDist, Cos10(orbitDeg \div 10))],
            [name |-> "camRx", val |-> -CAMERA_ELEVATION],
            [name |-> "camRy", val |-> orbitDeg],
            [name |-> "sceneCenterX", val |-> center[1]],
            [name |-> "sceneCenterY", val |-> center[2]],
            [name |-> "sceneCenterZ", val |-> center[3]],
            [name |-> "sceneRadius", val |-> radius * DISPLACE_RADIUS_SCALE_X2] >>
    IN  Bind(values, LAMBDA vs : AppendChans(Clear(w), vs))

---------------------------------------------------------------------------
(* onCook.  A frame f holds the world f.w and onCook's local variables.    *)

SetKey(f, k, v) == [f EXCEPT !.w.storage = Put(@, k, v)]

\* a shuffle that repeats the first file in every position
ShuffleRepeating(files, perm) == [i \in 1..Len(files) |-> files[perm[1]]]

\* random.shuffle(sceneFiles): perm is the permutation drawn
Shuffle(files, perm) == [i \in 1..Len(files) |-> files[perm[i]]]

\* lines 179-190: the vertical FOV cached from the camera and the render node
CachedVFov(env) ==
    IF "cam1" \in env.absent THEN DEFAULT_VFOV
    ELSE IF "renderPOP" \in env.absent THEN env.vFovAtDefaultAspect
    ELSE env.vFovOfCamera

\* InitStorage without the storage.clear() of line 167: old keys survive
InitStorageKeepingKeys(w, env, listing) ==
    LET sceneFiles == Shuffle(listing, env.perm)
        numScenes == Len(sceneFiles)
        bounds == LoadBounds(env.manifest)
        st == [version |-> STORAGE_VERSION,
               sceneFiles |-> sceneFiles,
               activeInput |-> 0,
               currentSceneIdx |-> 0,
               preloaded |-> TRUE,
               prevFraction |-> 0,
               blending |-> FALSE,
               blendStartTime |-> 0,
               blendReady |-> FALSE,
               waitingForSceneChange |-> FALSE,
               oldSceneFingerprint |-> << >>,
               vFov |-> CachedVFov(env),
               bounds |-> bounds,
               activeSphere |-> GetSphere(bounds, sceneFiles[1]),
               targetSphere |-> GetSphere(bounds, sceneFiles[(1 % numScenes) + 1])]
        kept == [k \in DOMAIN w.storage \cup DOMAIN st |->
                    IF k \in DOMAIN st THEN st[k] ELSE w.storage[k]]
        w1 == LoadScene([w EXCEPT !.storage = kept], env, 0, sceneFiles[1])
        w2 == LoadScene(w1, env, 1, sceneFiles[(1 % numScenes) + 1])
    IN  SetRestPositions(w2, env)

\* lines 163-208: the re-initialisation on a version mismatch
InitStorage(w, env, listing) ==
    LET sceneFiles == Shuffle(listing, env.perm)
        numScenes == Len(sceneFiles)
        bounds == LoadBounds(env.manifest)
        st == [version |-> STORAGE_VERSION,
               sceneFiles |-> sceneFiles,
               activeInput |-> 0,
               currentSceneIdx |-> 0,
               preloaded |-> TRUE,
               prevFraction |-> 0,
               blending |-> FALSE,
               blendStartTime |-> 0,
               blendReady |-> FALSE,
               waitingForSceneChange |-> FALSE,
               oldSceneFingerprint |-> << >>,
               vFov |-> CachedVFov(env),
               bounds |-> bounds,
               activeSphere |-> GetSphere(bounds, sceneFiles[1]),
               targetSphere |-> GetSphere(bounds, sceneFiles[(1 % numScenes) + 1])]
        w1 == LoadScene([w EXCEPT !.storage = st], env, 0, sceneFiles[1])
        w2 == LoadScene(w1, env, 1, sceneFiles[(1 % numScenes) + 1])
    IN  SetRestPositions(w2, env)

\* lines 210-222
ReadLocals(w) ==
    [w |-> w,
     activeInput |-> w.storage.activeInput,
     currentSceneIdx |-> w.storage.currentSceneIdx,
     preloaded |-> w.storage.preloaded,
     prevFraction |-> w.storage.prevFraction,
     blending |-> w.storage.blending,
     blendReady |-> Get(w.storage, "blendReady", FALSE),
     activeSphere |-> w.storage.activeSphere,
     targetSphere |-> w.storage.targetSphere,
     switchIndex |-> 0,
     cameraSphere |-> ScaledSphere(DEFAULT_SPHERE)]

\* ApplyDeferred regenerating on every waiting tick, changed fingerprint or not
ApplyDeferredUnchecked(f, env) ==
    IF Get(f.w.storage, "waitingForSceneChange", FALSE)
    THEN LET f1 == [f EXCEPT !.w = ReadFingerprint(@, env)]
             f2 == SetKey(f1, "waitingForSceneChange", FALSE)
         IN  [f2 EXCEPT !.w = SetRestPositions(@, env)]
    ELSE f

\* lines 224-231: the deferred rest position update
ApplyDeferred(f, env) ==
    IF Get(f.w.storage, "waitingForSceneChange", FALSE)
    THEN LET f1 == [f EXCEPT !.w = ReadFingerprint(@, env)]
             fingerprint == GetSceneFingerprint(env.null1)
             oldFingerprint == Get(f.w.storage, "oldSceneFingerprint", << >>)
         IN  IF fingerprint # oldFingerprint
             THEN LET f2 == SetKey(f1, "waitingForSceneChange", FALSE)
                  IN  [f2 EXCEPT !.w = SetRestPositions(@, env)]
             ELSE f1
    ELSE f

\* DetectReset acting on a timer reset during a blend too
DetectResetWhileBlending(f, env) ==
    LET timerReset == env.fraction < f.prevFraction - ResetTolerance
        f1 == SetKey(f, "prevFraction", env.fraction)
    IN  IF timerReset
        THEN [SetKey(f1, "preloaded", FALSE) EXCEPT !.preloaded = FALSE]
        ELSE f1

\* DetectReset giving up the consistency gate when the cycle wraps
DetectResetClearingGate(f, env) ==
    LET timerReset == env.fraction < f.prevFraction - ResetTolerance
        f1 == SetKey(f, "prevFraction", env.fraction)
    IN  IF timerReset /\ ~f.blending
        THEN [SetKey(SetKey(f1, "preloaded", FALSE), "waitingForSceneChange", FALSE)
                EXCEPT !.preloaded = FALSE]
        ELSE f1

\* DetectReset taking every backward move of the cycle position for a reset
DetectResetNoTolerance(f, env) ==
    LET timerReset == env.fraction < f.prevFraction
        f1 == SetKey(f, "prevFraction", env.fraction)
    IN  IF timerReset /\ ~f.blending
        THEN [SetKey(f1, "preloaded", FALSE) EXCEPT !.preloaded = FALSE]
        ELSE f1

\* lines 233-240: the timer reset
DetectReset(f, env) ==
    LET timerReset == env.fraction < f.prevFraction - ResetTolerance
        f1 == SetKey(f, "prevFraction", env.fraction)
    IN  IF timerReset /\ ~f.blending
        THEN [SetKey(f1, "preloaded", FALSE) EXCEPT !.preloaded = FALSE]
        ELSE f1

\* ArmBlend arming on every tick
ArmBlendAlways(f, env) ==
    [SetKey(f, "blendReady", TRUE) EXCEPT !.blendReady = TRUE]

\* lines 242-245: arming the blend trigger
ArmBlend(f, env) ==
    IF env.fraction < ArmBelow
    THEN [SetKey(f, "blendReady", TRUE) EXCEPT !.blendReady = TRUE]
    ELSE f

\* Preload that loads the next scene over the displayed input
PreloadIntoActive(f, env) ==
    LET waiting == Get(f.w.storage, "waitingForSceneChange", FALSE)
        sceneFiles == f.w.storage.sceneFiles
        numScenes == Len(sceneFiles)
    IN  IF ~f.preloaded /\ ~f.blending /\ ~waiting /\ env.fraction > PreloadAbove
        THEN LET nextSceneIdx == (f.currentSceneIdx + 1) % numScenes
                 f1 == [f EXCEPT !.w = LoadScene(@, env, f.activeInput,
                                                 sceneFiles[nextSceneIdx + 1])]
                 f2 == SetKey(f1, "preloaded", TRUE)
                 bounds == Get(f2.w.storage, "bounds", EmptyDict)
                 f3 == SetKey(f2, "targetSphere",
                              GetSphere(bounds, sceneFiles[nextSceneIdx + 1]))
             IN  [f3 EXCEPT !.targetSphere = f3.w.storage.targetSphere]
        ELSE f

\* Preload not held back by the consistency gate
PreloadWhileWaiting(f, env) ==
    LET sceneFiles == f.w.storage.sceneFiles
        numScenes == Len(sceneFiles)
    IN  IF ~f.preloaded /\ ~f.blending /\ env.fraction > PreloadAbove
        THEN LET inactiveInput == 1 - f.activeInput
                 nextSceneIdx == (f.currentSceneIdx + 1) % numScenes
                 f1 == [f EXCEPT !.w = LoadScene(@, env, inactiveInput,
                                                 sceneFiles[nextSceneIdx + 1])]
                 f2 == SetKey(f1, "preloaded", TRUE)
                 bounds == Get(f2.w.storage, "bounds", EmptyDict)
                 f3 == SetKey(f2, "targetSphere",
                              GetSphere(bounds, sceneFiles[nextSceneIdx + 1]))
             IN  [f3 EXCEPT !.targetSphere = f3.w.storage.targetSphere]
        ELSE f

\* lines 247-258: the preload of the next scene into the inactive input
Preload(f, env) ==
    LET waiting == Get(f.w.storage, "waitingForSceneChange", FALSE)
        sceneFiles == f.w.storage.sceneFiles
        numScenes == Len(sceneFiles)
    IN  IF ~f.preloaded /\ ~f.blending /\ ~waiting /\ env.fraction > PreloadAbove
        THEN LET inactiveInput == 1 - f.activeInput
                 nextSceneIdx == (f.currentSceneIdx + 1) % numScenes
                 f1 == [f EXCEPT !.w = LoadScene(@, env, inactiveInput,
                                                 sceneFiles[nextSceneIdx + 1])]
                 f2 == SetKey(f1, "preloaded", TRUE)
                 bounds == Get(f2.w.storage, "bounds", EmptyDict)
                 f3 == SetKey(f2, "targetSphere",
                              GetSphere(bounds, sceneFiles[nextSceneIdx + 1]))
             IN  [f3 EXCEPT !.targetSphere = f3.w.storage.targetSphere]
        ELSE f

\* StartBlend without the ready latch
StartBlendUnlatched(f, env) ==
    IF ~f.blending /\ env.fraction >= BlendFrom /\ f.preloaded
    THEN LET f1 == SetKey(f, "blending", TRUE)
             f2 == SetKey(f1, "blendStartTime", env.now)
             f3 == SetKey(f2, "blendReady", FALSE)
         IN  [f3 EXCEPT !.blending = TRUE]
    ELSE f

\* StartBlend not asking for the preload
StartBlendUnpreloaded(f, env) ==
    IF ~f.blending /\ f.blendReady /\ env.fraction >= BlendFrom
    THEN LET f1 == SetKey(f, "blending", TRUE)
             f2 == SetKey(f1, "blendStartTime", env.now)
             f3 == SetKey(f2, "blendReady", FALSE)
         IN  [f3 EXCEPT !.blending = TRUE]
    ELSE f

\* lines 260-265: the start of the blend
StartBlend(f, env) ==
    IF ~f.blending /\ f.blendReady /\ env.fraction >= BlendFrom /\ f.preloaded
    THEN LET f1 == SetKey(f, "blending", TRUE)
             f2 == SetKey(f1, "blendStartTime", env.now)
             f3 == SetKey(f2, "blendReady", FALSE)
         IN  [f3 EXCEPT !.blending = TRUE]
    ELSE f

\* CompleteBlend advancing the scene index by two
CompleteBlendSkipping(f, env) ==
    LET numScenes == Len(f.w.storage.sceneFiles)
        activeInput == 1 - f.activeInput
        currentSceneIdx == (f.currentSceneIdx + 2) % numScenes
        f1 == SetKey(f, "activeInput", activeInput)
        f2 == SetKey(f1, "currentSceneIdx", currentSceneIdx)
        f3 == SetKey(f2, "blending", FALSE)
        f4 == SetKey(f3, "preloaded", FALSE)
        f5 == SetKey(f4, "activeSphere", f.targetSphere)
        f6 == [f5 EXCEPT !.w = ReadFingerprint(ResetFeedbackTextures(@, env), env)]
        f7 == SetKey(f6, "oldSceneFingerprint", GetSceneFingerprint(env.null1))
        f8 == SetKey(f7, "waitingForSceneChange", TRUE)
    IN  [f8 EXCEPT !.activeInput = activeInput,
                   !.currentSceneIdx = currentSceneIdx,
                   !.switchIndex = activeInput * Scale,
                   !.cameraSphere = ScaledSphere(f.targetSphere)]

\* CompleteBlend publishing the sphere of the scene that was replaced
CompleteBlendOldCamera(f, env) ==
    LET numScenes == Len(f.w.storage.sceneFiles)
        activeInput == 1 - f.activeInput
        currentSceneIdx == (f.currentSceneIdx + 1) % numScenes
        f1 == SetKey(f, "activeInput", activeInput)
        f2 == SetKey(f1, "currentSceneIdx", currentSceneIdx)
        f3 == SetKey(f2, "blending", FALSE)
        f4 == SetKey(f3, "preloaded", FALSE)
        f5 == SetKey(f4, "activeSphere", f.targetSphere)
        f6 == [f5 EXCEPT !.w = ReadFingerprint(ResetFeedbackTextures(@, env), env)]
        f7 == SetKey(f6, "oldSceneFingerprint", GetSceneFingerprint(env.null1))
        f8 == SetKey(f7, "waitingForSceneChange", TRUE)
    IN  [f8 EXCEPT !.activeInput = activeInput,
                   !.currentSceneIdx = currentSceneIdx,
                   !.switchIndex = activeInput * Scale,
                   !.cameraSphere = ScaledSphere(f.activeSphere)]

\* CompleteBlend leaving the active sphere as it was
CompleteBlendKeepingSphere(f, env) ==
    LET numScenes == Len(f.w.storage.sceneFiles)
        activeInput == 1 - f.activeInput
        currentSceneIdx == (f.currentSceneIdx + 1) % numScenes
        f1 == SetKey(f, "activeInput", activeInput)
        f2 == SetKey(f1, "currentSceneIdx", currentSceneIdx)
        f3 == SetKey(f2, "blending", FALSE)
        f4 == SetKey(f3, "preloaded", FALSE)
        f6 == [f4 EXCEPT !.w = ReadFingerprint(ResetFeedbackTextures(@, env), env)]
        f7 == SetKey(f6, "oldSceneFingerprint", GetSceneFingerprint(env.null1))
        f8 == SetKey(f7, "waitingForSceneChange", TRUE)
    IN  [f8 EXCEPT !.activeInput = activeInput,
                   !.currentSceneIdx = currentSceneIdx,
                   !.switchIndex = activeInput * Scale,
                   !.cameraSphere = ScaledSphere(f.targetSphere)]

\* CompleteBlend capturing the fingerprint before the feedback reset
CompleteBlendCaptureFirst(f, env) ==
    LET numScenes == Len(f.w.storage.sceneFiles)
        activeInput == 1 - f.activeInput
        currentSceneIdx == (f.currentSceneIdx + 1) % numScenes
        f1 == SetKey(f, "activeInput", activeInput)
        f2 == SetKey(f1, "currentSceneIdx", currentSceneIdx)
        f3 == SetKey(f2, "blending", FALSE)
        f4 == SetKey(f3, "preloaded", FALSE)
        f5 == SetKey(f4, "activeSphere", f.targetSphere)
        f6 == [f5 EXCEPT !.w = ResetFeedbackTextures(ReadFingerprint(@, env), env)]
        f7 == SetKey(f6, "oldSceneFingerprint", GetSceneFingerprint(env.null1))
        f8 == SetKey(f7, "waitingForSceneChange", TRUE)
    IN  [f8 EXCEPT !.activeInput = activeInput,
                   !.currentSceneIdx = currentSceneIdx,
                   !.switchIndex = activeInput * Scale,
                   !.cameraSphere = ScaledSphere(f.targetSphere)]

\* lines 270-285: the blend is complete, the active and inactive inputs swap
CompleteBlend(f, env) ==
    LET numScenes == Len(f.w.storage.sceneFiles)
        activeInput == 1 - f.activeInput
        currentSceneIdx == (f.currentSceneIdx + 1) % numScenes
        f1 == SetKey(f, "activeInput", activeInput)
        f2 == SetKey(f1, "currentSceneIdx", currentSceneIdx)
        f3 == SetKey(f2, "blending", FALSE)
        f4 == SetKey(f3, "preloaded", FALSE)
        f5 == SetKey(f4, "activeSphere", f.targetSphere)
        f6 == [f5 EXCEPT !.w = ReadFingerprint(ResetFeedbackTextures(@, env), env)]
        f7 == SetKey(f6, "oldSceneFingerprint", GetSceneFingerprint(env.null1))
        f8 == SetKey(f7, "waitingForSceneChange", TRUE)
    IN  [f8 EXCEPT !.activeInput = activeInput,
                   !.currentSceneIdx = currentSceneIdx,
                   !.switchIndex = activeInput * Scale,
                   !.cameraSphere = ScaledSphere(f.targetSphere)]

\* ComputeSwitch publishing the active slot plus the crossfade progress
ComputeSwitchSlotPlusProgress(f, env) ==
    IF f.blending
    THEN LET elapsed == env.now - f.w.storage.blendStartTime
         IN  IF elapsed >= BLEND_DURATION
             THEN CompleteBlend(f, env)
             ELSE LET blendFraction == Smoothstep(elapsed)
                  IN  [f EXCEPT
                          !.switchIndex = f.activeInput * Scale + blendFraction,
                          !.cameraSphere = LerpSphere(f.activeSphere, f.targetSphere,
                                                      blendFraction)]
    ELSE [f EXCEPT !.switchIndex = f.activeInput * Scale,
                   !.cameraSphere = ScaledSphere(f.activeSphere)]

\* ComputeSwitch completing the blend only after more than BLEND_DURATION
ComputeSwitchStrictlyAfter(f, env) ==
    IF f.blending
    THEN LET elapsed == env.now - f.w.storage.blendStartTime
         IN  IF elapsed > BLEND_DURATION
             THEN CompleteBlend(f, env)
             ELSE LET blendFraction == Smoothstep(elapsed)
                      inactiveInput == 1 - f.activeInput
                  IN  [f EXCEPT
                          !.switchIndex = f.activeInput * Scale
                                + (inactiveInput - f.activeInput) * blendFraction,
                          !.cameraSphere = LerpSphere(f.activeSphere, f.targetSphere,
                                                      blendFraction)]
    ELSE [f EXCEPT !.switchIndex = f.activeInput * Scale,
                   !.cameraSphere = ScaledSphere(f.activeSphere)]

\* lines 267-294: the switch index and the camera framing
ComputeSwitch(f, env) ==
    IF f.blending
    THEN LET elapsed == env.now - f.w.storage.blendStartTime
         IN  IF elapsed >= BLEND_DURATION
             THEN CompleteBlend(f, env)
             ELSE LET blendFraction == Smoothstep(elapsed)
                      inactiveInput == 1 - f.activeInput
                  IN  [f EXCEPT
                          !.switchIndex = f.activeInput * Scale
                                + (inactiveInput - f.activeInput) * blendFraction,
                          !.cameraSphere = LerpSphere(f.activeSphere, f.targetSphere,
                                                      blendFraction)]
    ELSE [f EXCEPT !.switchIndex = f.activeInput * Scale,
                   !.cameraSphere = ScaledSphere(f.activeSphere)]

\* Publish with the next index not wrapped at the end of the scene list
PublishNoWrap(f, env) ==
    LET nextSceneIdx == f.currentSceneIdx + 1
    IN  OutputChannels(f.w, env, f.switchIndex, f.currentSceneIdx, nextSceneIdx,
                       f.cameraSphere)

\* Publish with the regeneration scheduled after the channels are rebuilt
PublishThenRegenerate(f, env) ==
    LET numScenes == Len(f.w.storage.sceneFiles)
        nextSceneIdx == (f.currentSceneIdx + 1) % numScenes
    IN  SetRestPositions(OutputChannels(f.w, env, f.switchIndex, f.currentSceneIdx,
                                        nextSceneIdx, f.cameraSphere), env)

\* lines 296-298
Publish(f, env) ==
    LET numScenes == Len(f.w.storage.sceneFiles)
        nextSceneIdx == (f.currentSceneIdx + 1) % numScenes
    IN  OutputChannels(f.w, env, f.switchIndex, f.currentSceneIdx, nextSceneIdx,
                       f.cameraSphere)

\* lines 210-298: the tick once the storage is initialised
Rotate(w, env) ==
    Bind(Bind(Bind(Bind(Bind(Bind(Bind(ReadLocals(w),
        LAMBDA f : ApplyDeferred(f, env)),
        LAMBDA f : DetectReset(f, env)),
        LAMBDA f : ArmBlend(f, env)),
        LAMBDA f : Preload(f, env)),
        LAMBDA f : StartBlend(f, env)),
        LAMBDA f : ComputeSwitch(f, env)),
        LAMBDA f : Publish(f, env))

VersionMismatch(st) == Get(st, "version", 0) # STORAGE_VERSION

\* OnCook publishing the persisted scene index on a tick with fewer than two scenes
OnCookStaleIndex(w, env) ==
    IF ~env.timer
    THEN OutputChannels(w, env, 0, 0, 0, ScaledSphere(DEFAULT_SPHERE))
    ELSE IF env.timerChans = 0 THEN Raise(w)
    ELSE LET sceneFiles == GetSceneFiles(env.dir)
         IN  IF Len(sceneFiles) < 2
             THEN OutputChannels(w, env, 0, Get(w.storage, "currentSceneIdx", 0), 0,
                                 ScaledSphere(DEFAULT_SPHERE))
             ELSE IF VersionMismatch(w.storage)
                  THEN Rotate(InitStorage(w, env, sceneFiles), env)
                  ELSE Rotate(w, env)

\* OnCook recording the cycle position of a tick with fewer than two scenes
OnCookTrackingDisabled(w, env) ==
    IF ~env.timer
    THEN OutputChannels(w, env, 0, 0, 0, ScaledSphere(DEFAULT_SPHERE))
    ELSE IF env.timerChans = 0 THEN Raise(w)
    ELSE LET sceneFiles == GetSceneFiles(env.dir)
         IN  IF Len(sceneFiles) < 2
             THEN OutputChannels([w EXCEPT !.storage = Put(@, "prevFraction", env.fraction)],
                                 env, 0, 0, 0, ScaledSphere(DEFAULT_SPHERE))
             ELSE IF VersionMismatch(w.storage)
                  THEN Rotate(InitStorage(w, env, sceneFiles), env)
                  ELSE Rotate(w, env)

\* OnCook reading the timer fraction without the test of line 150
OnCookUnguardedTimer(w, env) ==
    IF ~env.timer \/ env.timerChans = 0 THEN Raise(w)
    ELSE LET sceneFiles == GetSceneFiles(env.dir)
         IN  IF Len(sceneFiles) < 2
             THEN OutputChannels(w, env, 0, 0, 0, ScaledSphere(DEFAULT_SPHERE))
             ELSE IF VersionMismatch(w.storage)
                  THEN Rotate(InitStorage(w, env, sceneFiles), env)
                  ELSE Rotate(w, env)

\* lines 143-298
OnCook(w, env) ==
    IF ~env.timer
    THEN OutputChannels(w, env, 0, 0, 0, ScaledSphere(DEFAULT_SPHERE))
    ELSE IF env.timerChans = 0 THEN Raise(w)
    ELSE LET sceneFiles == GetSceneFiles(env.dir)
         IN  IF Len(sceneFiles) < 2
             THEN OutputChannels(w, env, 0, 0, 0, ScaledSphere(DEFAULT_SPHERE))
             ELSE IF VersionMismatch(w.storage)
                  THEN Rotate(InitStorage(w, env, sceneFiles), env)
                  ELSE Rotate(w, env)

---------------------------------------------------------------------------
(* The environment of a tick *)

Fractions == {0, 5, 10, 50, 90}

MissingDir == [exists |-> FALSE, entries |-> {}]

\* a directory holding bounds.json (entry 0) and the scene files 1..n
DirWith(n) == [exists |-> TRUE, entries |-> 0..n]

SmallDirs == {MissingDir, DirWith(0), DirWith(1)}

BigDirs == {DirWith(n) : n \in 2..MaxScenes}

\* after the initialisation only the length of the listing is read: a later
\* listing holds every scene file, whatever the first one held
LaterDirs == {DirWith(MaxScenes)}

\* the sphere bounds.json gives scene file f
SphereOf(f) == [center |-> <<10 * (f - 1), 0, 0>>, radius |-> 10 * f]

NoManifest == [readable |-> FALSE, json |-> EmptyDict]

\* bounds.json with entries for the scene files 1 and 2 only
PartialManifest == [readable |-> TRUE, json |-> [f \in 1..2 |-> SphereOf(f)]]

\* the vertical FOV, in degrees, line 188 computes for the model's camera
\* (fov 90 at aspect 16/9: 2 * atan(9/16) = 58.7); the model's render node
\* is 16:9, the aspect line 186 takes when the node is not found
CameraVFov == 59

Identity(n) == [i \in 1..n |-> i]

Reverse(n) == [i \in 1..n |-> n + 1 - i]

\* the permutations random.shuffle draws in the model
ShuffleDraws(n) == {Identity(n), Reverse(n)}

CloudA == << <<12345, 0, -12345>>, <<20000, 20000, 20000>> >>

\* CloudA moved by less than a millimetre
CloudA2 == << <<12349, 0, -12349>>, <<20001, 20003, 20005>> >>

CloudB == << <<12345, 0, -12345>>, <<30000, 20000, 20000>>, <<5, 5, 5>> >>

NoNull1 == [present |-> FALSE, points |-> << >>]

Null1Choices ==
    {NoNull1,
     [present |-> TRUE, points |-> << >>],
     [present |-> TRUE, points |-> CloudA],
     [present |-> TRUE, points |-> CloudA2],
     [present |-> TRUE, points |-> CloudB]}

\* the nodes a tick starting from storage st can look up
Looked(st) ==
    IF VersionMismatch(st)
    THEN {"pointfilein2", "pointfilein3", "rest_pos_script", "cam1", "renderPOP"}
    ELSE IF st.blending THEN {"offset_feedback", "velocity_feedback"}
    ELSE LET loader == IF st.activeInput = 0 THEN "pointfilein3" ELSE "pointfilein2"
         IN  IF st.waitingForSceneChange THEN {"rest_pos_script", loader} ELSE {loader}

\* on a tick any of the nodes that can fail may be not found
AbsentChoices(st, failing) == SUBSET (Looked(st) \cap failing)

\* the storage a project saved by the legacy script (STORAGE_VERSION 2) holds
LegacyStorage ==
    [version |-> LEGACY_STORAGE_VERSION, activeInput |-> 1, currentSceneIdx |-> 1,
     preloaded |-> TRUE, regenCountdown |-> 2, prevFraction |-> 90,
     blending |-> TRUE, blendStartTime |-> 0, blendReady |-> TRUE]

World == [storage |-> storage, slots |-> slots, chans |-> chans, log |-> << >>]

Env(timer, fraction, dir, perm, manifest, null1, absent, t) ==
    [timer |-> timer, fraction |-> fraction, dir |-> dir, perm |-> perm,
     manifest |-> manifest, null1 |-> null1, absent |-> absent, now |-> t,
     timerChans |-> 1, vFovOfCamera |-> CameraVFov, vFovAtDefaultAspect |-> CameraVFov]

Issued(l, ops) == \E i \in 1..Len(l) : l[i].op \in ops

LoadOps == {"loadScene", "loadSceneSkipped"}

---------------------------------------------------------------------------
(* The state machine *)

Init ==
    /\ \/ storage = EmptyDict /\ slots = <<0, 0>>
       \/ storage = LegacyStorage /\ slots = <<2, 1>>
    /\ chans = << >>
    /\ log = << >>
    /\ now = 0
    /\ tick = "none"
    /\ preloadsSinceWrap = 0
    /\ lowSinceSwap = TRUE
    /\ lastSwitch = 0
    /\ delayedRuns = 0
    /\ initListing = << >>
    /\ call = << >>
    /\ ret = << >>
    /\ jitter = FALSE
    /\ framesSinceLoad = -1

\* one call of onCook at time t, with the observers' bookkeeping
Tick(env, path) ==
    \E w \in {OnCook(World, env)} :
        LET rotating == path \in {"init", "rotate"}
            prevFraction == IF path = "rotate" THEN storage.prevFraction ELSE 0
            timerReset == rotating /\ env.fraction < prevFraction - ResetTolerance
            preload == path = "rotate" /\ Issued(w.log, LoadOps)
            swap == Issued(w.log, {"resetFeedbackTextures"})
            counted == IF timerReset \/ path = "init" THEN 0 ELSE preloadsSinceWrap
        IN  /\ storage' = w.storage
            /\ slots' = w.slots
            /\ chans' = w.chans
            /\ log' = w.log
            /\ now' = env.now
            /\ tick' = path
            /\ initListing' = IF path = "init" THEN GetSceneFiles(env.dir) ELSE initListing
            /\ preloadsSinceWrap' = Min(2, counted + IF preload THEN 1 ELSE 0)
            /\ lowSinceSwap' = IF swap THEN FALSE
                               ELSE IF rotating /\ env.fraction < ArmBelow THEN TRUE
                               ELSE lowSinceSwap
            /\ lastSwitch' = IF rotating THEN w.chans[1].val ELSE lastSwitch
            /\ delayedRuns' = Cardinality({i \in 1..Len(w.log) : w.log[i].op = "runDelayed"})
            /\ jitter' = /\ path = "rotate"
                          /\ env.fraction < prevFraction
                          /\ env.fraction >= prevFraction - ResetTolerance
            /\ UNCHANGED <<call, ret, framesSinceLoad>>

\* a tick with no timer wired to input 0
NoTimerTick(times) ==
    \E t \in times :
        Tick(Env(FALSE, 0, MissingDir, Identity(0), NoManifest, NoNull1, {}, t), "noTimer")

\* a tick whose directory listing has fewer than two scenes
FewScenesTick(times) ==
    \E t \in times, dir \in SmallDirs :
        Tick(Env(TRUE, 0, dir, Identity(0), NoManifest, NoNull1, {}, t), "fewScenes")

\* the first tick with two scenes or more: the storage version does not match
InitTick(times, fractions, manifests, failing) ==
    /\ VersionMismatch(storage)
    /\ \E t \in times, fraction \in fractions, dir \in BigDirs, manifest \in manifests,
          absent \in AbsentChoices(storage, failing) :
        \E perm \in ShuffleDraws(Len(GetSceneFiles(dir))) :
            Tick(Env(TRUE, fraction, dir, perm, manifest, NoNull1, absent, t), "init")

\* a later tick with two scenes or more; null1 is drawn where the tick can read it
RotateTick(times, fractions, null1s, failing) ==
    /\ ~VersionMismatch(storage)
    /\ \E t \in times, fraction \in fractions, dir \in LaterDirs,
          absent \in AbsentChoices(storage, failing),
          null1 \in (IF storage.waitingForSceneChange \/ storage.blending
                     THEN null1s ELSE {NoNull1}) :
        Tick(Env(TRUE, fraction, dir, Identity(0), NoManifest, null1, absent, t), "rotate")

\* absTime.seconds at the next tick
Times == {t \in {now + 1, now + MaxDt} : t <= MaxTime}

Next ==
    \/ NoTimerTick(Times)
    \/ FewScenesTick(Times)
    \/ InitTick(Times, Fractions, {PartialManifest}, {})
    \/ RotateTick(Times, Fractions, Null1Choices, {})

Spec == Init /\ [][Next]_vars

---------------------------------------------------------------------------
(* The sweeping tick stream: the timer is wired, the directory holds two   *)
(* scenes or more, every tick is one second after the last and the cycle   *)
(* position steps through SweepOrder and wraps.  onCook is cooked on every *)
(* frame, so the tick is weakly fair.                                      *)

SweepMaxTime == 36

SweepOrder == <<0, 5, 10, 50, 90>>

\* the cycle position one tick after position p
SweepAfter(p) ==
    LET i == CHOOSE k \in 1..Len(SweepOrder) : SweepOrder[k] = p
    IN  SweepOrder[(i % Len(SweepOrder)) + 1]

SweepTimes == {t \in {now + 1} : t <= SweepMaxTime}

\* null1 cooks a point cloud on every tick of the sweep
SweepNull1s == {[present |-> TRUE, points |-> CloudA], [present |-> TRUE, points |-> CloudB]}

SweepNext ==
    \/ InitTick(SweepTimes, {0, 50}, {PartialManifest}, {})
    \/ RotateTick(SweepTimes, {SweepAfter(storage.prevFraction)}, SweepNull1s, {})

SweepSpec == Init /\ [][SweepNext]_vars /\ WF_vars(SweepNext)

---------------------------------------------------------------------------
(* Ticks with collaborators missing: on every tick any of the nodes the    *)
(* tick looks up may be not found, the manifest may be missing or          *)
(* undecodable, null1 may be missing or empty, and the timer CHOP may be   *)
(* wired with no channel in it.                                            *)

FaultMaxTime == 8

FaultNodes ==
    {"pointfilein2", "pointfilein3", "rest_pos_script", "cam1", "renderPOP",
     "offset_feedback", "velocity_feedback"}

FaultFractions == {10, 90}

FaultTimes == {t \in {now + 1, now + BLEND_DURATION} : t <= FaultMaxTime}

\* a tick that finds the timer unwired or empty, or fewer than two scenes,
\* comes after a pause: it is the last tick within FaultMaxTime
FaultTimesDisabled == {t \in {FaultMaxTime} : now < t}

FaultNull1s == {NoNull1, [present |-> TRUE, points |-> CloudA]}

\* a tick whose timer CHOP is wired but holds no channel
EmptyTimerTick(times) ==
    \E t \in times :
        Tick([Env(TRUE, 0, MissingDir, Identity(0), NoManifest, NoNull1, {}, t)
                 EXCEPT !.timerChans = 0], "error")

FaultNext ==
    \/ NoTimerTick(FaultTimesDisabled)
    \/ EmptyTimerTick(FaultTimesDisabled)
    \/ FewScenesTick(FaultTimesDisabled)
    \/ InitTick(FaultTimes, FaultFractions, {NoManifest, PartialManifest}, FaultNodes)
    \/ RotateTick(FaultTimes, FaultFractions, FaultNull1s, FaultNodes)

FaultSpec == Init /\ [][FaultNext]_vars

---------------------------------------------------------------------------
(* The jittering tick stream: the cycle position moves back by less than   *)
(* ResetTolerance between ticks as well as forward and across the wrap.    *)

JitterMaxTime == 8

\* 0.15 -> 0.08 is a backward move of 0.07 that ends above PreloadAbove
JitterFractions == {8, 15, 90}

JitterTimes == {t \in {now + 1, now + BLEND_DURATION} : t <= JitterMaxTime}

JitterNext ==
    \/ NoTimerTick({t \in {now + 1} : t <= JitterMaxTime})
    \/ InitTick(JitterTimes, JitterFractions, {PartialManifest}, {})
    \/ RotateTick(JitterTimes, JitterFractions, FaultNull1s, {})

JitterSpec == Init /\ [][JitterNext]_vars

---------------------------------------------------------------------------
(* _lerpSphere called on its own: the spheres and the fraction t = n / d   *)
(* are drawn at the start, the call returns once.                          *)

LerpSteps == 4

SphereA == [center |-> <<0, 0, 0>>, radius |-> 10]

SphereB == [center |-> <<10, 0, 0>>, radius |-> 20]

LerpSpheres ==
    {SphereA, SphereB, DEFAULT_SPHERE, [center |-> <<-5, 3, 7>>, radius |-> 1]}
        \cup {SphereOf(f) : f \in 1..MaxScenes}

\* the fractions n / d of [0, 1] with a denominator of LerpSteps at most
LerpCalls ==
    {c \in [fn : {"_lerpSphere"}, a : LerpSpheres, b : LerpSpheres,
            n : 0..LerpSteps, d : 1..LerpSteps] : c.n <= c.d}

LerpInit ==
    /\ storage = EmptyDict /\ slots = <<0, 0>>
    /\ chans = << >>
    /\ log = << >>
    /\ now = 0
    /\ tick = "none"
    /\ preloadsSinceWrap = 0
    /\ lowSinceSwap = TRUE
    /\ lastSwitch = 0
    /\ delayedRuns = 0
    /\ initListing = << >>
    /\ call \in LerpCalls
    /\ ret = << >>
    /\ jitter = FALSE
    /\ framesSinceLoad = -1

CallLerpSphere ==
    /\ call # << >> /\ ret = << >>
    /\ ret' = LerpSphereIn(call.a, call.b, call.n, call.d)
    /\ UNCHANGED <<storage, slots, chans, log, now, tick, preloadsSinceWrap,
                   lowSinceSwap, lastSwitch, delayedRuns, initListing, call, jitter,
                   framesSinceLoad>>

LerpNext == CallLerpSphere

LerpSpec == LerpInit /\ [][LerpNext]_vars

---------------------------------------------------------------------------
(* The legacy scheduler, Kinect 3D Splat Displacement/gallery_rotation.py: *)
(* onCook clears the channels first and appends three at its end.  The     *)
(* steps whose text is the same in both files (DetectReset, ArmBlend,      *)
(* StartBlend, LoadScene, Smoothstep, GetSceneFiles) are shared.           *)

LegacyMaxTime == 9

REST_REGEN_DELAY_FRAMES == 3

\* _regenerateRestPositions(): the forced cook of rest_pos_script, at once
RegenerateRestPositions(w, env) ==
    IF "rest_pos_script" \in env.absent
    THEN Emit(w, "regenerateRestPositions", 0, 0)
    ELSE Emit(Emit(w, "regenerateRestPositions", 1, 0), "cook", 0, 0)

\* lines 61-63, 71-73 and 168-170: the three channels
LegacyAppendChans(w, switchIndex, sceneIdx, nextSceneIdx) ==
    AppendChans(w, << [name |-> "switchIndex", val |-> switchIndex],
                      [name |-> "sceneIndex", val |-> sceneIdx],
                      [name |-> "nextSceneIndex", val |-> nextSceneIdx] >>)

\* lines 83-98
LegacyInitStorage(w, env, sceneFiles) ==
    LET numScenes == Len(sceneFiles)
        st == [version |-> LEGACY_STORAGE_VERSION,
               activeInput |-> 0,
               currentSceneIdx |-> 0,
               preloaded |-> TRUE,
               regenCountdown |-> -1,
               prevFraction |-> 0,
               blending |-> FALSE,
               blendStartTime |-> 0,
               blendReady |-> FALSE]
        w1 == LoadScene([w EXCEPT !.storage = st], env, 0, sceneFiles[1])
    IN  LoadScene(w1, env, 1, sceneFiles[(1 % numScenes) + 1])

\* lines 100-107
LegacyReadLocals(w, sceneFiles) ==
    [w |-> w,
     sceneFiles |-> sceneFiles,
     activeInput |-> w.storage.activeInput,
     currentSceneIdx |-> w.storage.currentSceneIdx,
     preloaded |-> w.storage.preloaded,
     regenCountdown |-> w.storage.regenCountdown,
     prevFraction |-> w.storage.prevFraction,
     blending |-> w.storage.blending,
     blendReady |-> Get(w.storage, "blendReady", FALSE),
     switchIndex |-> 0]

\* lines 123-131: the preload, which starts the regeneration countdown
LegacyPreload(f, env) ==
    IF ~f.preloaded /\ ~f.blending /\ env.fraction > PreloadAbove
    THEN LET inactiveInput == 1 - f.activeInput
             nextSceneIdx == (f.currentSceneIdx + 1) % Len(f.sceneFiles)
             f1 == [f EXCEPT !.w = LoadScene(@, env, inactiveInput,
                                             f.sceneFiles[nextSceneIdx + 1])]
             f2 == SetKey(f1, "preloaded", TRUE)
         IN  SetKey(f2, "regenCountdown", REST_REGEN_DELAY_FRAMES)
    ELSE f

\* lines 133-138: the countdown, on the value read at line 103
LegacyRegenDelay(f, env) ==
    IF f.regenCountdown > 0
    THEN SetKey(f, "regenCountdown", f.regenCountdown - 1)
    ELSE IF f.regenCountdown = 0
         THEN [SetKey(f, "regenCountdown", -1) EXCEPT !.w = RegenerateRestPositions(@, env)]
         ELSE f

\* lines 147-164
LegacyComputeSwitch(f, env) ==
    IF f.blending
    THEN LET elapsed == env.now - f.w.storage.blendStartTime
         IN  IF elapsed >= BLEND_DURATION
             THEN LET activeInput == 1 - f.activeInput
                      currentSceneIdx == (f.currentSceneIdx + 1) % Len(f.sceneFiles)
                      f1 == SetKey(f, "activeInput", activeInput)
                      f2 == SetKey(f1, "currentSceneIdx", currentSceneIdx)
                      f3 == SetKey(f2, "blending", FALSE)
                      f4 == SetKey(f3, "preloaded", FALSE)
                  IN  [f4 EXCEPT !.activeInput = activeInput,
                                 !.currentSceneIdx = currentSceneIdx,
                                 !.switchIndex = activeInput * Scale]
             ELSE LET blendFraction == Smoothstep(elapsed)
                      inactiveInput == 1 - f.activeInput
                  IN  [f EXCEPT !.switchIndex = f.activeInput * Scale
                                    + (inactiveInput - f.activeInput) * blendFraction]
    ELSE [f EXCEPT !.switchIndex = f.activeInput * Scale]

\* lines 166-170
LegacyPublish(f, env) ==
    LegacyAppendChans(f.w, f.switchIndex, f.currentSceneIdx,
                      (f.currentSceneIdx + 1) % Len(f.sceneFiles))

\* lines 100-170: the listing of the tick is the scene list
LegacyRotate(w, env, sceneFiles) ==
    Bind(Bind(Bind(Bind(Bind(Bind(Bind(LegacyReadLocals(w, sceneFiles),
        LAMBDA f : DetectReset(f, env)),
        LAMBDA f : ArmBlend(f, env)),
        LAMBDA f : LegacyPreload(f, env)),
        LAMBDA f : LegacyRegenDelay(f, env)),
        LAMBDA f : StartBlend(f, env)),
        LAMBDA f : LegacyComputeSwitch(f, env)),
        LAMBDA f : LegacyPublish(f, env))

LegacyVersionMismatch(st) == Get(st, "version", 0) # LEGACY_STORAGE_VERSION

\* lines 55-170
LegacyOnCook(w, env) ==
    LET cleared == Clear(w)
    IN  IF ~env.timer
        THEN LegacyAppendChans(cleared, 0, 0, 0)
        ELSE LET sceneFiles == GetSceneFiles(env.dir)
             IN  IF Len(sceneFiles) < 2
                 THEN LegacyAppendChans(cleared, 0, 0, 0)
                 ELSE IF LegacyVersionMismatch(cleared.storage)
                      THEN LegacyRotate(LegacyInitStorage(cleared, env, sceneFiles),
                                        env, sceneFiles)
                      ELSE LegacyRotate(cleared, env, sceneFiles)

\* the frame count the observer stops at
FrameCountCap == REST_REGEN_DELAY_FRAMES + 2

\* one call of the legacy onCook; the observers of the other script rest
LegacyTick(env, path) ==
    \E w \in {LegacyOnCook(World, env)} :
        /\ framesSinceLoad' = IF path = "rotate" /\ Issued(w.log, LoadOps) THEN 0
                              ELSE IF framesSinceLoad < 0 \/ path # "rotate" THEN framesSinceLoad
                              ELSE Min(FrameCountCap, framesSinceLoad + 1)
        /\ storage' = w.storage
        /\ slots' = w.slots
        /\ chans' = w.chans
        /\ log' = w.log
        /\ now' = env.now
        /\ tick' = path
        /\ UNCHANGED <<preloadsSinceWrap, lowSinceSwap, lastSwitch, delayedRuns,
                       initListing, call, ret, jitter>>

LegacyFractions == {10, 60, 90}

\* one frame a second
LegacyTimes == {t \in {now + 1} : t <= LegacyMaxTime}

LegacyNoTimerTick ==
    \E t \in LegacyTimes :
        LegacyTick(Env(FALSE, 0, MissingDir, Identity(0), NoManifest, NoNull1, {}, t),
                   "noTimer")

LegacyFewScenesTick ==
    \E t \in LegacyTimes, dir \in SmallDirs :
        LegacyTick(Env(TRUE, 0, dir, Identity(0), NoManifest, NoNull1, {}, t), "fewScenes")

LegacyInitTick ==
    /\ LegacyVersionMismatch(storage)
    /\ \E t \in LegacyTimes, fraction \in LegacyFractions, dir \in BigDirs :
        LegacyTick(Env(TRUE, fraction, dir, Identity(0), NoManifest, NoNull1, {}, t), "init")

LegacyRotateTick ==
    /\ ~LegacyVersionMismatch(storage)
    /\ \E t \in LegacyTimes, fraction \in LegacyFractions, dir \in BigDirs,
          absent \in SUBSET {"rest_pos_script"} :
        LegacyTick(Env(TRUE, fraction, dir, Identity(0), NoManifest, NoNull1, absent, t),
                   "rotate")

LegacyNext ==
    \/ LegacyNoTimerTick
    \/ LegacyFewScenesTick
    \/ LegacyInitTick
    \/ LegacyRotateTick

LegacyInit ==
    /\ storage = EmptyDict /\ slots = <<0, 0>>
    /\ chans = << >>
    /\ log = << >>
    /\ now = 0
    /\ tick = "none"
    /\ preloadsSinceWrap = 0
    /\ lowSinceSwap = TRUE
    /\ lastSwitch = 0
    /\ delayedRuns = 0
    /\ initListing = << >>
    /\ call = << >>
    /\ ret = << >>
    /\ jitter = FALSE
    /\ framesSinceLoad = -1

LegacySpec == LegacyInit /\ [][LegacyNext]_vars

---------------------------------------------------------------------------
(* What the properties read *)

\* the storage has been initialised by this script
Inited == ~VersionMismatch(storage)

\* the value of the published channel called name
Chan(cs, name) == cs[CHOOSE i \in 1..Len(cs) : cs[i].name = name].val

\* the last tick ran the rotation (two scenes or more, timer wired)
Enabled == tick \in {"init", "rotate"}

\* the operations that reach a collaborator node
CommandOps ==
    {"loadScene", "loadSceneSkipped", "setRestPositions", "runDelayed",
     "resetFeedbackTextures", "resetpulse", "readFingerprint"}

---------------------------------------------------------------------------
---------------------------------------------------------------------------
(* C6: a tick whose directory listing has 0 or 1 scene publishes           *)
(* blendControl 0, sceneIndex 0 and nextSceneIndex 0 and issues no load    *)
(* command, whatever the persisted state is.                               *)
C6_FewScenesDisabled ==
    tick = "fewScenes" =>
        /\ Chan(chans, "switchIndex") = 0
        /\ Chan(chans, "sceneIndex") = 0
        /\ Chan(chans, "nextSceneIndex") = 0
        /\ ~Issued(log, CommandOps)

\* a few-scenes tick in the middle of a blend towards scene 1
C6_Witness ==
    /\ tick = "fewScenes"
    /\ Inited
    /\ storage.blending
    /\ storage.currentSceneIdx = 1
    /\ storage.activeInput = 1

---------------------------------------------------------------------------
(* C10: a blend starts on a tick only if, on that tick, no blend is in     *)
(* progress, the ready latch is set, the fraction is at least 0.9 and the  *)
(* inactive slot is preloaded; the start records the tick's wall-clock     *)
(* time as blendStartTime and clears the ready latch.                      *)
BlendStarts == tick' = "rotate" /\ ~storage.blending /\ storage'.blending

C10_BlendStartGuard ==
    [][BlendStarts =>
        /\ storage.blendReady
        /\ storage'.prevFraction >= BlendFrom
        /\ storage.preloaded
        /\ storage'.preloaded
        /\ storage'.blendStartTime = now'
        /\ ~storage'.blendReady]_vars

\* a blend has just started: no time has elapsed since blendStartTime
C10_Witness ==
    /\ tick = "rotate"
    /\ storage.blending
    /\ storage.blendStartTime = now
    /\ storage.prevFraction >= BlendFrom

---------------------------------------------------------------------------
(* What a step of the rotation did *)

\* the cycle position the tick read
FractionRead == storage'.prevFraction

\* the tick fired the regeneration
RegenFired == Issued(log', {"setRestPositions"})

\* the tick completed a blend and swapped the inputs
Swapped == Issued(log', {"resetFeedbackTextures"})

\* the fingerprint the gate read at the start of the tick
LiveFingerprint == log'[1].b

\* wall-clock seconds since the blend started, at the tick
Elapsed == now' - storage.blendStartTime

---------------------------------------------------------------------------
(* C3: apart from the regeneration the initialising tick fires             *)
(* unconditionally, the regeneration is fired at most once per blend       *)
(* completion (only while the gate a completion opened is waiting, and the *)
(* firing closes it), only on a tick whose live fingerprint differs from   *)
(* the fingerprint captured at that completion, exactly once on that tick; *)
(* on every waiting tick whose live fingerprint equals the captured one it *)
(* is not fired and the gate keeps waiting with the same capture.          *)
C3_RegenerationGate ==
    [][/\ tick' \in {"noTimer", "fewScenes"} => ~RegenFired
       /\ tick' = "rotate" =>
            /\ RegenFired =>
                 /\ storage.waitingForSceneChange
                 /\ log'[1].op = "readFingerprint"
                 /\ LiveFingerprint # storage.oldSceneFingerprint
                 /\ ~storage'.waitingForSceneChange
                 /\ Cardinality({i \in 1..Len(log') : log'[i].op = "setRestPositions"}) = 1
            /\ storage.waitingForSceneChange =>
                 /\ log'[1].op = "readFingerprint"
                 /\ LiveFingerprint = storage.oldSceneFingerprint =>
                      /\ ~RegenFired
                      /\ storage'.waitingForSceneChange
                      /\ storage'.oldSceneFingerprint = storage.oldSceneFingerprint
            /\ ~storage.waitingForSceneChange /\ storage'.waitingForSceneChange => Swapped
            /\ Swapped => storage'.waitingForSceneChange /\ ~RegenFired]_vars

\* the gate closed on a tick that read a point cloud differing from the capture
C3_Witness ==
    /\ tick = "rotate"
    /\ Issued(log, {"setRestPositions"})
    /\ log[1].op = "readFingerprint"
    /\ log[1].b # << >>
    /\ storage.oldSceneFingerprint # << >>
    /\ ~storage.waitingForSceneChange

\* C3 as stated: every firing is on a tick that read a live fingerprint
\* differing from the one captured at a blend completion
C3_OnlyOnFingerprintChange ==
    [][RegenFired =>
        /\ Get(storage, "waitingForSceneChange", FALSE)
        /\ log'[1].op = "readFingerprint"
        /\ LiveFingerprint # storage.oldSceneFingerprint]_vars

---------------------------------------------------------------------------
(* C4: between two consecutive wraps of the cycle position onCook issues   *)
(* exactly one preload load command, never two.                            *)
C4_OnePreloadPerCycle == preloadsSinceWrap <= 1

---------------------------------------------------------------------------
(* C5: on a tick whose cycle position is more than 0.1 below the previous  *)
(* tick's and with no blend in progress, the preload flag is cleared, and  *)
(* is set again on that tick only by a new preload load, which starts no   *)
(* blend; a drop of 0.1 or less leaves a set flag set; on any tick while a *)
(* blend is in progress with less than BLEND_DURATION elapsed, a reset     *)
(* tick included, blending stays true, blendStartTime is unchanged and     *)
(* preloaded stays true, and once BLEND_DURATION has elapsed the tick      *)
(* completes the blend with its swap; a blend ends in no other way.        *)
TimerReset == FractionRead < storage.prevFraction - ResetTolerance

C5_ResetAndBlend ==
    [][tick' = "rotate" =>
        /\ TimerReset /\ ~storage.blending =>
             /\ ~storage'.preloaded \/ Issued(log', LoadOps)
             /\ ~storage'.blending
        /\ ~TimerReset /\ ~storage.blending /\ storage.preloaded => storage'.preloaded
        /\ storage.blending =>
             /\ storage.preloaded
             /\ IF Elapsed >= BLEND_DURATION
                THEN Swapped /\ ~storage'.blending /\ ~storage'.preloaded
                ELSE /\ ~Swapped
                     /\ storage'.blending
                     /\ storage'.blendStartTime = storage.blendStartTime
                     /\ storage'.preloaded]_vars

\* the cycle position has wrapped during a blend that is still in progress
C5_Witness ==
    /\ tick = "rotate"
    /\ storage.blending
    /\ storage.preloaded
    /\ storage.prevFraction < ArmBelow
    /\ storage.blendStartTime < now

\* C5 as stated: a drop of 0.1 or more clears the flag (a new preload may
\* set it again); with the same drop during a blend the blend state stays
C5_DropOfTenthOrMore ==
    [][tick' = "rotate" /\ FractionRead <= storage.prevFraction - ResetTolerance =>
        /\ ~storage.blending => ~storage'.preloaded \/ Issued(log', LoadOps)
        /\ storage.blending =>
             /\ storage'.blending
             /\ storage'.blendStartTime = storage.blendStartTime
             /\ storage'.preloaded]_vars

---------------------------------------------------------------------------
(* C7: over the ticks of one blend (the ticks on which the rotation runs), *)
(* the published blend control equals activeSlot on the tick the blend     *)
(* starts, on each later tick of the blend is strictly nearer inactiveSlot *)
(* than on the tick before and stays between the two slots, and on the     *)
(* tick where elapsed >= BLEND_DURATION equals exactly the former          *)
(* inactiveSlot, which is the new activeSlot.                              *)
C7_BlendMonotonic ==
    [][tick' = "rotate" =>
        LET a == storage.activeInput
            d == 1 - 2 * a
            s == Chan(chans', "switchIndex")
        IN  /\ BlendStarts => s = a * Scale /\ lastSwitch = a * Scale
            /\ storage.blending /\ storage'.blending =>
                 /\ d * (s - lastSwitch) > 0
                 /\ 0 < d * (s - a * Scale)
                 /\ d * (s - a * Scale) < Scale
            /\ storage.blending /\ Elapsed >= BLEND_DURATION =>
                 /\ s = (1 - a) * Scale
                 /\ storage'.activeInput = 1 - a
                 /\ d * (s - lastSwitch) > 0
            /\ lastSwitch' = s]_vars

\* a second tick inside a blend from slot 1 to slot 0
C7_Witness ==
    /\ tick = "rotate"
    /\ storage.blending
    /\ storage.activeInput = 1
    /\ now - storage.blendStartTime >= 2
    /\ lastSwitch \notin {0, Scale}

---------------------------------------------------------------------------
(* C8: the published blend control is always in [0,1]; with no blend in    *)
(* progress it is exactly the active slot id; during a blend from slot 0   *)
(* to slot 1 it is the crossfade progress p (integer part 0, fractional    *)
(* part p) and during a blend from slot 1 to slot 0 it is 1 - p.           *)
Progress == Smoothstep(now - storage.blendStartTime)

C8_BlendControlEncoding ==
    tick # "none" =>
        LET s == Chan(chans, "switchIndex")
        IN  /\ 0 <= s /\ s <= Scale
            /\ Enabled /\ ~storage.blending => s = storage.activeInput * Scale
            /\ Enabled /\ storage.blending =>
                 s = IF storage.activeInput = 0 THEN Progress ELSE Scale - Progress

\* in the middle of a blend from slot 1 to slot 0
C8_Witness ==
    /\ tick = "rotate"
    /\ storage.blending
    /\ storage.activeInput = 1
    /\ Progress > 0
    /\ Chan(chans, "switchIndex") = Scale - Progress

\* C8 as stated: in [0,2), and during a transition in either direction the
\* fractional part is the crossfade progress
C8_FractionalPartIsProgress ==
    tick # "none" =>
        LET s == Chan(chans, "switchIndex")
        IN  /\ 0 <= s /\ s < 2 * Scale
            /\ Enabled /\ storage.blending => s % Scale = Progress % Scale

---------------------------------------------------------------------------
(* C9: the ready latch is set by every tick with cyclePosition < 0.5,      *)
(* during a blend and on the tick that completes one too, and by nothing   *)
(* else; only the start of a blend clears it, and a blend starts only with *)
(* the latch set: after a blend has started no new blend starts until some *)
(* later tick has had cyclePosition < 0.5.                                 *)
C9_ReadyLatch ==
    [][tick' = "rotate" =>
        /\ BlendStarts => storage.blendReady /\ ~storage'.blendReady
        /\ ~storage.blendReady /\ storage'.blendReady => FractionRead < ArmBelow
        /\ FractionRead < ArmBelow => storage'.blendReady
        /\ storage.blendReady /\ ~storage'.blendReady => BlendStarts]_vars

\* the latch is set while a blend is in progress
C9_Witness ==
    /\ tick = "rotate"
    /\ storage.blending
    /\ storage.blendReady

\* C9 as stated: a blend starts only after a tick later than the last
\* completion had cyclePosition < 0.5, and no tick of a blend sets the latch
C9_RearmOnlyWhenIdle ==
    [][/\ BlendStarts => lowSinceSwap
       /\ tick' = "rotate" /\ storage.blending /\ ~storage.blendReady
            => ~storage'.blendReady]_vars

---------------------------------------------------------------------------
(* C1: for every stored catalog of N >= 2 scenes, under the sweeping tick  *)
(* stream, currentSceneIndex changes only by stepping to the next index of *)
(* the stored catalog order (0,1,...,N-1,0,...), the active input shows    *)
(* the scene of that index whenever no blend is in progress, and whenever  *)
(* the consistency gate is not waiting (the live fingerprint has differed  *)
(* from the one captured at the last completion) the index advances again; *)
(* while the gate waits and the live fingerprint equals the captured one   *)
(* nothing is loaded, no blend starts and the index stays.                 *)

\* the ticks left after SweepDeadline are enough for a sweep up to the blend and the blend
SweepDeadline == SweepMaxTime - 2 * Len(SweepOrder)

NumScenes == Len(storage.sceneFiles)

C1_InOrder ==
    [][Inited /\ storage'.currentSceneIdx # storage.currentSceneIdx =>
        storage'.currentSceneIdx = (storage.currentSceneIdx + 1) % NumScenes]_vars

C1_ActiveInputShowsCurrent ==
    [](IF Inited /\ ~Get(storage, "blending", FALSE)
       THEN slots[storage.activeInput + 1] = storage.sceneFiles[storage.currentSceneIdx + 1]
       ELSE TRUE)

\* scene i is current with time left for one more sweep, a preload and a blend
Showing(i) ==
    IF Inited
    THEN storage.currentSceneIdx = i /\ now <= SweepDeadline - Len(SweepOrder)
    ELSE FALSE

\* scene i is current with time left, and the gate is not waiting
ShowingGateClear(i) ==
    IF Inited
    THEN storage.currentSceneIdx = i /\ ~storage.waitingForSceneChange /\ now <= SweepDeadline
    ELSE FALSE

\* the scene after scene i in the stored catalog order is current
ShowingNext(i) ==
    IF Inited THEN storage.currentSceneIdx = (i + 1) % NumScenes ELSE FALSE

\* a scene other than scene i is current
ShowingOther(i) ==
    IF Inited THEN storage.currentSceneIdx # i ELSE FALSE

\* a waiting tick that reads the captured fingerprint again changes nothing of
\* the rotation: no load, no blend, the same index, the same capture, still waiting
C1_StallsWhileGateWaits ==
    [][tick' = "rotate" /\ storage.waitingForSceneChange
            /\ LiveFingerprint = storage.oldSceneFingerprint =>
        /\ storage'.waitingForSceneChange
        /\ storage'.oldSceneFingerprint = storage.oldSceneFingerprint
        /\ storage'.currentSceneIdx = storage.currentSceneIdx
        /\ storage'.activeInput = storage.activeInput
        /\ ~storage'.blending
        /\ ~storage'.preloaded
        /\ ~Issued(log', LoadOps)]_vars

---------------------------------------------------------------------------
(* C11: on the tick a blend completes (a blend in progress and             *)
(* BLEND_DURATION elapsed), and on no other tick after the initialisation, *)
(* the persisted state changes all together: activeInput becomes           *)
(* 1 - activeInput, currentSceneIdx becomes (currentSceneIdx + 1) mod N,   *)
(* preloaded and blending become false, activeSphere becomes the           *)
(* targetSphere, the fingerprint read on the tick is stored and the        *)
(* consistency gate becomes waiting; on every other tick none of           *)
(* activeInput, currentSceneIdx, activeSphere and the stored fingerprint   *)
(* changes, no blend ends and the gate does not start waiting.             *)

\* the value the tick's last read of null1 returned
FingerprintRead ==
    log'[CHOOSE i \in 1..Len(log') :
            /\ log'[i].op = "readFingerprint"
            /\ \A j \in (i + 1)..Len(log') : log'[j].op # "readFingerprint"].b

C11_SwapAllTogether ==
    [][/\ tick' = "rotate" =>
            /\ Swapped <=> storage.blending /\ Elapsed >= BLEND_DURATION
            /\ Swapped =>
                 /\ storage'.activeInput = 1 - storage.activeInput
                 /\ storage'.currentSceneIdx = (storage.currentSceneIdx + 1) % NumScenes
                 /\ ~storage'.preloaded
                 /\ ~storage'.blending
                 /\ storage'.activeSphere = storage.targetSphere
                 /\ storage'.oldSceneFingerprint = FingerprintRead
                 /\ storage'.waitingForSceneChange
            /\ ~Swapped =>
                 /\ storage'.activeInput = storage.activeInput
                 /\ storage'.currentSceneIdx = storage.currentSceneIdx
                 /\ storage'.activeSphere = storage.activeSphere
                 /\ storage'.oldSceneFingerprint = storage.oldSceneFingerprint
                 /\ storage.blending => storage'.blending
                 /\ storage'.waitingForSceneChange => storage.waitingForSceneChange
       /\ tick' \in {"noTimer", "fewScenes"} => ~Swapped /\ storage' = storage]_vars

\* a swap has made input 1 active, showing scene 1 with the sphere the
\* manifest gives it, a point cloud captured and the gate waiting
C11_Witness ==
    /\ tick = "rotate"
    /\ Issued(log, {"resetFeedbackTextures"})
    /\ storage.activeInput = 1
    /\ storage.currentSceneIdx = 1
    /\ storage.activeSphere # DEFAULT_SPHERE
    /\ storage.oldSceneFingerprint # << >>
    /\ storage.waitingForSceneChange

---------------------------------------------------------------------------
(* C12: a tick of the rotation issues at most one preload load command; it *)
(* targets the inactive input (1 - activeInput) and leaves the active one  *)
(* as it is, loads sceneFiles[(currentSceneIdx + 1) mod N], sets preloaded *)
(* and sets targetSphere to the sphere the stored bounds give that scene   *)
(* (DEFAULT_SPHERE without an entry); it is issued exactly when, on that   *)
(* tick, preloaded is false (or has just been cleared by a timer reset),   *)
(* no blend is in progress, the consistency gate is not waiting and        *)
(* cyclePosition > 0.05.                                                   *)

\* the positions of the tick's load commands in its log
Loads == {i \in 1..Len(log') : log'[i].op \in LoadOps}

\* the preload guard of line 249, over the state the tick found
PreloadDue ==
    /\ ~storage.preloaded \/ TimerReset
    /\ ~storage.blending
    /\ ~storage'.waitingForSceneChange
    /\ FractionRead > PreloadAbove

C12_PreloadIntoInactive ==
    [][tick' = "rotate" =>
        /\ Cardinality(Loads) <= 1
        /\ Loads # {} <=> PreloadDue
        /\ \A i \in Loads :
             LET inputIndex == log'[i].a
                 filename == log'[i].b
             IN  /\ inputIndex = 1 - storage.activeInput
                 /\ storage'.activeInput = storage.activeInput
                 /\ filename = storage.sceneFiles[((storage.currentSceneIdx + 1) % NumScenes) + 1]
                 /\ slots'[inputIndex + 1] = filename
                 /\ slots'[storage.activeInput + 1] = slots[storage.activeInput + 1]
                 /\ storage'.preloaded
                 /\ storage'.targetSphere = Get(storage.bounds, filename, DEFAULT_SPHERE)]_vars

\* after a swap the next scene, one the manifest has no entry for, has been
\* preloaded into input 0
C12_Witness ==
    /\ tick = "rotate"
    /\ \E i \in 1..Len(log) : log[i].op = "loadScene" /\ log[i].a = 0 /\ log[i].b = 3
    /\ storage.activeInput = 1
    /\ storage.preloaded
    /\ storage.targetSphere = DEFAULT_SPHERE
    /\ slots[1] = 3

---------------------------------------------------------------------------
(* C13: the forced cook of rest_pos_script never executes inside a tick of *)
(* onCook: a tick that requests the regeneration with the node present     *)
(* schedules it with run(..., delayFrames=1), once, before the tick clears *)
(* and rebuilds its outputs, so the run is pending only between ticks,     *)
(* with the full channel set published; the tick in which a blend          *)
(* completes requests and schedules nothing.                               *)

\* the positions in the last tick's log of the events with operation op
At(op) == {i \in 1..Len(log) : log[i].op = op}

C13_RegenerationDeferred ==
    /\ At("cook") = {}
    /\ \A i \in At("setRestPositions") :
         log[i].a = 1 =>
            /\ i + 1 \in At("runDelayed")
            /\ log[i + 1].a = 1
    /\ \A i \in At("runDelayed") :
         /\ i - 1 \in At("setRestPositions")
         /\ \A j \in At("clear") : i < j
    /\ delayedRuns = Cardinality(At("runDelayed"))
    /\ delayedRuns <= 1
    /\ delayedRuns > 0 => Len(chans) = 12 /\ log[Len(log)].op = "appendChan"
    /\ At("resetFeedbackTextures") # {} => At("setRestPositions") = {} /\ delayedRuns = 0

\* the gate has fired on a later tick than the swap: one run is pending and
\* the tick's outputs are published
C13_Witness ==
    /\ tick = "rotate"
    /\ delayedRuns = 1
    /\ storage.currentSceneIdx = 1
    /\ ~storage.waitingForSceneChange
    /\ Len(chans) = 12

---------------------------------------------------------------------------
(* C14: _resetFeedbackTextures is invoked exactly once on the tick of a    *)
(* slot swap and on no tick without a swap; within the swap tick it (with  *)
(* the reset pulses of the two feedback nodes) precedes the one read of    *)
(* the fingerprint, whose value is stored with the gate set waiting, and   *)
(* all of them precede the clear and rebuild of the outputs.               *)

\* the positions in the tick's log of the events with operation op
Did(op) == {i \in 1..Len(log') : log'[i].op = op}

\* the tick swapped the active and the inactive input
SlotSwap == tick' = "rotate" /\ storage'.activeInput # storage.activeInput

C14_FeedbackResetOncePerSwap ==
    [][/\ Cardinality(Did("resetFeedbackTextures")) = IF SlotSwap THEN 1 ELSE 0
       /\ Did("resetFeedbackTextures") = {} => Did("resetpulse") = {}
       /\ \A r \in Did("resetFeedbackTextures") :
            /\ Did("resetpulse") = {r + 1, r + 2}
            /\ Did("readFingerprint") = {r + 3}
            /\ Did("clear") = {r + 4}
            /\ storage'.oldSceneFingerprint = log'[r + 3].b
            /\ storage'.waitingForSceneChange
            /\ ~storage.waitingForSceneChange]_vars

\* a swap tick: both feedback nodes pulsed, then the capture of a point cloud
C14_Witness ==
    /\ tick = "rotate"
    /\ \E r \in At("resetFeedbackTextures") :
         /\ log[r + 1].op = "resetpulse" /\ log[r + 1].a = 1
         /\ log[r + 2].op = "resetpulse" /\ log[r + 2].a = 2
         /\ log[r + 3].op = "readFingerprint" /\ log[r + 3].b # << >>
    /\ storage.waitingForSceneChange

---------------------------------------------------------------------------
\* the load attempts of the tick that found no loader node
SkippedLoads == {i \in Loads : log'[i].op = "loadSceneSkipped"}

\* the active input shows the scene file the rotation state says is current
ShowsCurrentScene ==
    slots[storage.activeInput + 1] = storage.sceneFiles[storage.currentSceneIdx + 1]

(* C15: when a scene load finds no loader node on a tick, the slot keeps   *)
(* the scene it held, the tick makes no second attempt at that slot, and   *)
(* the slot is not marked as preloaded, so that a later tick attempts the  *)
(* load again.                                                             *)
C15_SkippedLoadRetried ==
    [][\A i \in SkippedLoads :
          /\ slots'[log'[i].a + 1] = slots[log'[i].a + 1]
          /\ \A j \in Loads : log'[j].a = log'[i].a => j = i
          /\ ~storage'.preloaded]_vars

\* what the code does instead: the skipped load leaves the slot alone and is
\* the only attempt of the tick, and the slot is marked as preloaded
C15_SkippedLoadMarkedPreloaded ==
    [][\A i \in SkippedLoads :
          /\ slots'[log'[i].a + 1] = slots[log'[i].a + 1]
          /\ \A j \in Loads : log'[j].a = log'[i].a => j = i
          /\ storage'.preloaded]_vars

\* never reached if every skipped load were made good before its slot is shown
C15_StaleSceneShown == Inited /\ tick = "rotate" /\ ~ShowsCurrentScene

---------------------------------------------------------------------------
\* the calls of _setRestPositions() in the tick that found no rest_pos_script
SkippedRegens == {i \in Did("setRestPositions") : log'[i].a = 0}

(* C16: when the consistency gate detects a fingerprint change on a tick   *)
(* where rest_pos_script is not found, the regeneration is skipped on that *)
(* tick and the gate keeps waiting, so that a later tick retries the       *)
(* regeneration of that swap.                                              *)
C16_SkippedRegenRetried ==
    [][tick' = "rotate" /\ storage.waitingForSceneChange /\ SkippedRegens # {} =>
          /\ Did("runDelayed") = {}
          /\ storage'.waitingForSceneChange
          /\ storage'.oldSceneFingerprint = storage.oldSceneFingerprint]_vars

\* what the code does instead: nothing is scheduled and the gate is cleared
C16_SkippedRegenLost ==
    [][tick' = "rotate" /\ storage.waitingForSceneChange /\ SkippedRegens # {} =>
          /\ Did("runDelayed") = {}
          /\ ~storage'.waitingForSceneChange]_vars

---------------------------------------------------------------------------
\* the ticks whose inputs are absent collaborators and inputs at most: an
\* unwired timer, a directory with fewer than two scenes or none, and the
\* initialising and rotating ticks with any set of nodes not found
GuardedTicks == {"noTimer", "fewScenes", "init", "rotate"}

(* C17: whatever collaborators and inputs are absent (timer input, scene   *)
(* directory, manifest or entries of it, camera, render node, loaders,     *)
(* null1, rest_pos_script, feedback nodes), the tick raises nothing and    *)
(* ends with one clear followed by the 12 appends of a full output set,    *)
(* and what could not be read is replaced by its default.                  *)
C17_NoTickEndsInError ==
    tick \in GuardedTicks =>
        /\ At("raise") = {}
        /\ Cardinality(At("clear")) = 1
        /\ Cardinality(At("appendChan")) = 12
        /\ log[Len(log)] = Event("appendChan", 12, 0)
        /\ Len(chans) = 12
        /\ tick \in {"noTimer", "fewScenes"} =>
              Chan(chans, "sceneRadius") =
                ScaledSphere(DEFAULT_SPHERE).radius * DISPLACE_RADIUS_SCALE_X2
        /\ Inited => /\ storage.vFov \in {DEFAULT_VFOV, CameraVFov}
                     /\ storage.bounds \in {EmptyDict, PartialManifest.json}

\* an initialising tick that found no manifest, camera, loader or
\* rest_pos_script node and still published its 12 channels
C17_Witness ==
    /\ tick = "init"
    /\ storage.bounds = EmptyDict
    /\ storage.vFov = DEFAULT_VFOV
    /\ Cardinality(At("loadSceneSkipped")) = 2
    /\ \E i \in At("setRestPositions") : log[i].a = 0
    /\ Len(chans) = 12

---------------------------------------------------------------------------
\* the keys the initialisation block stores (lines 169-207)
InitKeys ==
    {"version", "sceneFiles", "activeInput", "currentSceneIdx", "preloaded",
     "prevFraction", "blending", "blendStartTime", "blendReady",
     "waitingForSceneChange", "oldSceneFingerprint", "vFov", "bounds",
     "activeSphere", "targetSphere"}

\* what the initialising tick leaves, but for the ready latch
InitialState ==
    /\ DOMAIN storage' = InitKeys
    /\ storage'.version = STORAGE_VERSION
    /\ storage'.activeInput = 0
    /\ storage'.currentSceneIdx = 0
    /\ ~storage'.blending
    /\ ~storage'.waitingForSceneChange
    /\ storage'.preloaded
    /\ slots' = <<storage'.sceneFiles[1], storage'.sceneFiles[2]>>
    /\ [i \in 1..2 |-> <<log'[i].op, log'[i].a, log'[i].b>>] =
          << <<"loadScene", 0, storage'.sceneFiles[1]>>,
             <<"loadScene", 1, storage'.sceneFiles[2]>> >>

\* no re-initialisation: version and scene order kept, no initial pair of loads
NoReinit ==
    /\ storage'.version = storage.version
    /\ storage'.sceneFiles = storage.sceneFiles
    /\ DOMAIN storage' = DOMAIN storage
    /\ Cardinality(Loads) <= 1
    /\ \A i \in Loads : log'[i].a = 1 - storage.activeInput

(* C18: a tick with the timer wired and two scenes or more whose persisted *)
(* version differs from STORAGE_VERSION discards every persisted key and   *)
(* leaves the initial state (active input 0, scene index 0, not blending,  *)
(* gate not waiting, first stored scene loaded into slot 0 and second into *)
(* slot 1, preloaded); the ready latch, cleared by the initialisation, is  *)
(* set again by the same tick exactly when the cycle position is below     *)
(* 0.5.  A tick whose persisted version equals STORAGE_VERSION does not    *)
(* re-initialise, reshuffle or load the initial scenes, and a disabled     *)
(* tick leaves the storage as it is.                                       *)
C18_ReinitOnVersionMismatch ==
    [][/\ tick' = "init" <=> VersionMismatch(storage) /\ tick' \in {"init", "rotate"}
       /\ tick' = "init" =>
            /\ InitialState
            /\ storage'.blendReady <=> FractionRead < ArmBelow
       /\ tick' = "rotate" => NoReinit
       /\ tick' \in {"noTimer", "fewScenes"} => storage' = storage /\ slots' = slots]_vars

\* the claim as stated: the ready latch is clear after the initialising tick
C18_InitialStateLatchClear ==
    [][tick' = "init" => InitialState /\ ~storage'.blendReady]_vars

\* the legacy project re-initialised at a low cycle position: no legacy key
\* is left, and the latch is already set
C18_Witness ==
    /\ tick = "init"
    /\ DOMAIN storage = InitKeys
    /\ storage.blendReady
    /\ storage.prevFraction < ArmBelow
    /\ slots = <<storage.sceneFiles[1], storage.sceneFiles[2]>>

---------------------------------------------------------------------------
\* s holds the elements of t, each as often as t does
IsPermutation(s, t) ==
    /\ Len(s) = Len(t)
    /\ \A x \in {s[i] : i \in 1..Len(s)} \cup {t[i] : i \in 1..Len(t)} :
          Cardinality({i \in 1..Len(s) : s[i] = x}) =
          Cardinality({i \in 1..Len(t) : t[i] = x})

(* C19: the stored scene order is a permutation of the directory listing   *)
(* of the initialising tick, and no later tick changes the stored order,   *)
(* the stored bounds or the cached vertical FOV, whatever the directory    *)
(* and the manifest hold by then.                                          *)
C19_SessionDataReadOnly ==
    [][/\ tick' = "init" => IsPermutation(storage'.sceneFiles, initListing')
       /\ Inited =>
            /\ tick' # "init"
            /\ initListing' = initListing
            /\ storage'.sceneFiles = storage.sceneFiles
            /\ storage'.bounds = storage.bounds
            /\ storage'.vFov = storage.vFov]_vars

\* a rotating tick whose listing holds one scene file more than the stored
\* order does and whose manifest cannot be read, after an initialisation
\* that reversed the listing and read the manifest
C19_Witness ==
    /\ tick = "rotate"
    /\ Len(initListing) < MaxScenes
    /\ storage.sceneFiles = Shuffle(initListing, Reverse(Len(initListing)))
    /\ storage.bounds = PartialManifest.json
    /\ storage.currentSceneIdx = 1

---------------------------------------------------------------------------
\* the consistency gate is waiting for null1 to show the new scene
GateWaiting == Inited /\ storage.waitingForSceneChange

(* C20: a waiting gate is left waiting, with its capture, by every tick    *)
(* that does not read a live fingerprint different from the captured one:  *)
(* disabled ticks, cycle resets and ticks any time later alike.  Only a    *)
(* rotating tick that reads a different fingerprint clears it; nothing     *)
(* re-initialises a store of the current version, and no time limit ends   *)
(* the wait.                                                               *)
C20_GateWaitsForFingerprint ==
    [][GateWaiting =>
        /\ tick' \in {"noTimer", "fewScenes", "rotate"}
        /\ tick' \in {"noTimer", "fewScenes"} =>
             /\ Did("readFingerprint") = {}
             /\ storage' = storage
        /\ tick' = "rotate" =>
             /\ Did("readFingerprint") = {1}
             /\ storage'.waitingForSceneChange <=>
                    log'[1].b = storage.oldSceneFingerprint
             /\ storage'.waitingForSceneChange =>
                    /\ storage'.oldSceneFingerprint = storage.oldSceneFingerprint
                    /\ storage'.activeInput = storage.activeInput
                    /\ storage'.currentSceneIdx = storage.currentSceneIdx
                    /\ ~storage'.blending
                    /\ Did("setRestPositions") = {}
                    /\ Loads = {}]_vars

\* the gate still waits two ticks or more after the swap: a tick below 0.5
\* armed the latch again and the last tick, at 0.9, found the next blend due
C20_Witness ==
    /\ tick = "rotate"
    /\ GateWaiting
    /\ lowSinceSwap
    /\ storage.blendReady
    /\ storage.prevFraction >= BlendFrom
    /\ storage.oldSceneFingerprint # << >>

---------------------------------------------------------------------------
\* clamp01(elapsed / BLEND_DURATION) * Scale: the un-eased fraction of the blend
LinearProgress ==
    Clamp(0, now - storage.blendStartTime, BLEND_DURATION) * (Scale \div BLEND_DURATION)

\* the sphere the last tick published, in units of 1/Scale, before the reach
\* scaling of line 140
PublishedSphere ==
    [center |-> <<Chan(chans, "sceneCenterX"), Chan(chans, "sceneCenterY"),
                  Chan(chans, "sceneCenterZ")>>,
     radius |-> Chan(chans, "sceneRadius") \div DISPLACE_RADIUS_SCALE_X2]

(* C21: on every tick during a blend the published bounding sphere is the  *)
(* linear interpolation between activeSphere and targetSphere at the       *)
(* un-eased fraction clamp01(elapsed / BLEND_DURATION), not at the         *)
(* smoothstepped value of the blend control.                               *)
C21_SphereAtLinearFraction ==
    tick = "rotate" /\ storage.blending =>
        PublishedSphere = LerpSphere(storage.activeSphere, storage.targetSphere,
                                     LinearProgress)

\* what the code does instead: the sphere is interpolated at the eased fraction
C21_SphereAtEasedFraction ==
    tick = "rotate" /\ storage.blending =>
        PublishedSphere = LerpSphere(storage.activeSphere, storage.targetSphere,
                                     Progress)

\* a tick inside a blend between two scenes whose spheres differ
C21_MidBlend ==
    /\ tick = "rotate" /\ storage.blending
    /\ storage.activeSphere # storage.targetSphere
    /\ now - storage.blendStartTime \in 1..(BLEND_DURATION - 1)
    /\ Progress # LinearProgress

---------------------------------------------------------------------------
\* the call of _lerpSphere has returned
Returned == call # << >> /\ ret # << >>

Between(x, p, q) == (p <= x /\ x <= q) \/ (q <= x /\ x <= p)

(* C22: _lerpSphere(a, b, t) with t = n / d in [0, 1] returns, in units of *)
(* 1/d, the centre a.center + (b.center - a.center) * t per component and  *)
(* the radius a.radius + (b.radius - a.radius) * t: it returns a at t = 0  *)
(* and b at t = 1, lies between them, and for A = {(0,0,0), 10},           *)
(* B = {(10,0,0), 20} and t = 0.5 it returns {(5,0,0), 15}.                *)
C22_LerpSphere ==
    Returned =>
        LET a == call.a
            b == call.b
            n == call.n
            d == call.d
        IN  /\ DOMAIN ret = {"center", "radius"}
            /\ Len(ret.center) = 3
            /\ \A i \in 1..3 :
                  /\ ret.center[i] - a.center[i] * d = (b.center[i] - a.center[i]) * n
                  /\ Between(ret.center[i], a.center[i] * d, b.center[i] * d)
            /\ ret.radius - a.radius * d = (b.radius - a.radius) * n
            /\ Between(ret.radius, a.radius * d, b.radius * d)
            /\ n = 0 => ret = [center |-> [i \in 1..3 |-> a.center[i] * d],
                               radius |-> a.radius * d]
            /\ n = d => ret = [center |-> [i \in 1..3 |-> b.center[i] * d],
                               radius |-> b.radius * d]
            /\ a = SphereA /\ b = SphereB /\ 2 * n = d =>
                  /\ 2 * ret.center[1] = 5 * (2 * d)
                  /\ ret.center[2] = 0 /\ ret.center[3] = 0
                  /\ 2 * ret.radius = 15 * (2 * d)

\* the example: A and B at t = 2/4
C22_Witness ==
    /\ Returned
    /\ call.a = SphereA /\ call.b = SphereB
    /\ call.n = 2 /\ call.d = 4
    /\ ret = [center |-> <<20, 0, 0>>, radius |-> 60]

---------------------------------------------------------------------------
\* the operations that can make a consumer of the channels recompute
RecomputeOps == {"loadScene", "cook"}

\* the positions in the last tick's log where the channels were incomplete:
\* after the clear and before the last append
WhileCleared ==
    {i \in 1..Len(log) :
        /\ \E c \in At("clear") : c < i
        /\ \E p \in At("appendChan") : i < p}

(* C23: in the legacy scheduler no scene load and no forced cook of        *)
(* rest_pos_script happens between the clear of the channels and their     *)
(* republication in the same tick.                                         *)
C23_LegacyNoRecomputeWhileCleared ==
    \A i \in WhileCleared : log[i].op \notin RecomputeOps

\* what the legacy code does: the clear is the first operation of every
\* tick, so every load and every forced cook falls between it and the appends
C23_LegacyClearsFirst ==
    tick # "none" =>
        /\ log[1].op = "clear"
        /\ At("clear") = {1}
        /\ \A i \in 2..Len(log) : log[i].op \in RecomputeOps => i \in WhileCleared

\* a tick whose forced cook of rest_pos_script ran on the cleared channels
C23_CookWhileCleared ==
    \E i \in WhileCleared : log[i].op = "cook"

---------------------------------------------------------------------------
\* a blend is in progress in the persisted state
BlendRunning == Inited /\ storage.blending

(* C24: a blend in progress is completed (inputs swapped, blending         *)
(* cleared) by the first enabled tick at or after blendStartTime +         *)
(* BLEND_DURATION, whatever the cycle position does meanwhile; every       *)
(* earlier enabled tick and every disabled tick leaves it in progress with *)
(* its start time, and a store of the current version is not               *)
(* re-initialised.                                                         *)
C24_BlendCompletesOnTime ==
    [][BlendRunning =>
        /\ tick' \in {"noTimer", "fewScenes", "rotate"}
        /\ tick' \in {"noTimer", "fewScenes"} =>
             /\ storage'.blending
             /\ storage'.blendStartTime = storage.blendStartTime
        /\ tick' = "rotate" =>
             /\ storage'.blending <=> now' < storage.blendStartTime + BLEND_DURATION
             /\ storage'.blending =>
                  /\ storage'.blendStartTime = storage.blendStartTime
                  /\ storage'.activeInput = storage.activeInput
                  /\ storage'.currentSceneIdx = storage.currentSceneIdx
             /\ ~storage'.blending =>
                  /\ storage'.activeInput = 1 - storage.activeInput
                  /\ storage'.currentSceneIdx = (storage.currentSceneIdx + 1) % NumScenes
                  /\ Chan(chans', "switchIndex") = storage'.activeInput * Scale]_vars

\* a blend completed by a tick later than blendStartTime + BLEND_DURATION, at
\* a cycle position that had wrapped since the blend started at 0.9 or above
C24_Witness ==
    /\ tick = "rotate"
    /\ Issued(log, {"resetFeedbackTextures"})
    /\ ~storage.blending
    /\ now > storage.blendStartTime + BLEND_DURATION
    /\ storage.prevFraction < ArmBelow

---------------------------------------------------------------------------
(* C25: a reset of the cycle is detected exactly when the position read is *)
(* more than 0.1 below the one the previous enabled tick read.  A smaller  *)
(* backward move leaves a set preloaded flag set and issues no load; a     *)
(* tick issues a load only if the flag was clear before it or the tick     *)
(* detected a reset; disabled ticks leave the previous position as it is.  *)
C25_JitterIsNoReset ==
    [][/\ tick' = "rotate" =>
            /\ ~storage.blending /\ storage.preloaded =>
                 IF FractionRead < storage.prevFraction - ResetTolerance
                 THEN ~storage'.preloaded \/ Loads # {}
                 ELSE storage'.preloaded /\ Loads = {}
            /\ Loads # {} =>
                 \/ ~storage.preloaded
                 \/ FractionRead < storage.prevFraction - ResetTolerance
            /\ jitter' => FractionRead >= storage.prevFraction - ResetTolerance
       /\ Inited /\ tick' \in {"noTimer", "fewScenes"} =>
            storage'.prevFraction = storage.prevFraction]_vars

\* a backward move of 0.1 at most that ended above 0.05 with the flag set:
\* the flag is still set and the tick issued no load
C25_Witness ==
    /\ tick = "rotate"
    /\ jitter
    /\ storage.prevFraction > PreloadAbove
    /\ storage.preloaded /\ ~storage.blending
    /\ ~storage.waitingForSceneChange
    /\ ~Issued(log, LoadOps)

---------------------------------------------------------------------------
\* the scene file the rotation shows, and the one it shows next
CurrentScene == storage.sceneFiles[storage.currentSceneIdx + 1]

NextScene == storage.sceneFiles[((storage.currentSceneIdx + 1) % NumScenes) + 1]

(* C26: a scene with no entry in the stored manifest, and every scene when *)
(* the manifest was missing or undecodable, has the default sphere, centre *)
(* (0,0,0) and radius 50, as its activeSphere and targetSphere; a missing  *)
(* scene directory lists no scene, and a tick with fewer than two scenes   *)
(* publishes the disabled output on the default sphere.                    *)
C26_DefaultSphereFallback ==
    LET default == [center |-> <<0, 0, 0>>, radius |-> 50]
    IN  /\ GetSceneFiles(MissingDir) = << >>
        /\ tick = "fewScenes" =>
              /\ Chan(chans, "switchIndex") = 0
              /\ Chan(chans, "sceneIndex") = 0
              /\ Chan(chans, "nextSceneIndex") = 0
              /\ PublishedSphere = [center |-> <<0, 0, 0>>, radius |-> 50 * Scale]
        /\ Inited =>
              /\ storage.bounds \in {LoadBounds(NoManifest), LoadBounds(PartialManifest)}
              /\ LoadBounds(NoManifest) = EmptyDict
              /\ storage.activeSphere =
                    IF CurrentScene \in DOMAIN storage.bounds
                    THEN storage.bounds[CurrentScene] ELSE default
              /\ storage.preloaded \/ storage.blending =>
                    storage.targetSphere =
                        IF NextScene \in DOMAIN storage.bounds
                        THEN storage.bounds[NextScene] ELSE default
              /\ \E f \in {CurrentScene, NextScene} :
                    storage.targetSphere =
                        IF f \in DOMAIN storage.bounds THEN storage.bounds[f] ELSE default

\* the manifest was read but has no entry for the scene on show, whose
\* sphere is the default one, while the next scene has its own
C26_Witness ==
    /\ Inited
    /\ storage.bounds = PartialManifest.json
    /\ CurrentScene \notin DOMAIN storage.bounds
    /\ storage.activeSphere = DEFAULT_SPHERE
    /\ storage.targetSphere = SphereOf(NextScene)

---------------------------------------------------------------------------
\* the vertical FOV _outputChannels reads (line 118)
VFovRead == Get(storage, "vFov", DEFAULT_VFOV)

\* the camera distance of the last tick, in units of 1/Scale
PublishedDistance == CameraDistance(PublishedSphere.radius, VFovRead)

(* C27: the camera is published at the distance d = radius / tan(vFov/2)   *)
(* * (1 + margin) from the origin, at the elevation and orbit angle of the *)
(* tick; for vFov = 26 degrees, radius 50 and margin 0.01 d is 218.9 to    *)
(* within 0.5.                                                             *)
C27_CameraDistance ==
    tick \in GuardedTicks =>
        LET d == PublishedDistance
            r == PublishedSphere.radius
            horiz == MulE4(d, Cos10(CAMERA_ELEVATION \div 10))
            orbit == Chan(chans, "camRy") \div 10
        IN  /\ d * TanHalf(VFovRead) <= r * (100 + FRAMING_MARGIN_PCT) * 100
            /\ d * TanHalf(VFovRead) > r * (100 + FRAMING_MARGIN_PCT) * 100 - TanHalf(VFovRead)
            /\ Chan(chans, "camTy") = MulE4(d, Sin10(CAMERA_ELEVATION \div 10))
            /\ Chan(chans, "camTx") = MulE4(horiz, Sin10(orbit))
            /\ Chan(chans, "camTz") = MulE4(horiz, Cos10(orbit))
            /\ VFovRead = 26 /\ r = 50 * Scale /\ FRAMING_MARGIN_PCT = 1 =>
                  /\ 10 * d >= (2189 - 5) * Scale
                  /\ 10 * d <= (2189 + 5) * Scale

\* the example: a tick on the default sphere with the default vertical FOV,
\* the camera 218.7 away (27338 / 125)
C27_Witness ==
    /\ tick \in GuardedTicks
    /\ VFovRead = 26
    /\ PublishedSphere.radius = 50 * Scale
    /\ PublishedDistance = 27338
    /\ Chan(chans, "camTy") = MulE4(27338, Sin10(2))

---------------------------------------------------------------------------
\* the flags of a persisted state st agree
FlagsConsistent(st) ==
    /\ st.blending => st.preloaded
    /\ st.waitingForSceneChange => ~st.blending /\ ~st.preloaded

(* C28: in every persisted state this script has written, blending implies *)
(* preloaded and a waiting gate implies neither blending nor preloaded; a  *)
(* tick that leaves the gate waiting issues no load command and starts no  *)
(* blend.                                                                  *)
C28_FlagsConsistent ==
    [][/\ ~VersionMismatch(storage') => FlagsConsistent(storage')
       /\ tick' = "rotate" /\ storage'.waitingForSceneChange =>
            /\ Loads = {}
            /\ ~BlendStarts
            /\ ~storage'.blending]_vars

\* the gate kept waiting through a tick at 0.1 with nothing preloaded and no
\* blend running, where the preload would otherwise be due: no load issued
C28_Witness ==
    /\ tick = "rotate"
    /\ storage.waitingForSceneChange
    /\ ~storage.preloaded /\ ~storage.blending
    /\ storage.prevFraction > PreloadAbove
    /\ log[1].op = "readFingerprint"
    /\ ~Issued(log, LoadOps)
    /\ ~Issued(log, {"resetFeedbackTextures"})

----------------------------------------------------------------------------
\* the scene file loaded in the input that is not displayed
InactiveSlot(st, sl) == sl[(1 - st.activeInput) + 1]

\* the scene file loaded in the displayed input
ActiveSlot(st, sl) == sl[st.activeInput + 1]

(* C29: with every loader node present, after every tick the displayed     *)
(* input holds the scene file at currentSceneIdx and, whenever preloaded   *)
(* is set, the other input holds the scene file at (currentSceneIdx + 1)   *)
(* mod N; a tick that finds a blend in progress issues no load.            *)
C29_SlotsHoldCatalogScenes ==
    [][/\ ~VersionMismatch(storage') =>
            /\ ActiveSlot(storage', slots') =
                   storage'.sceneFiles[storage'.currentSceneIdx + 1]
            /\ storage'.preloaded =>
                   InactiveSlot(storage', slots') =
                      storage'.sceneFiles[((storage'.currentSceneIdx + 1)
                                             % Len(storage'.sceneFiles)) + 1]
       /\ Inited /\ storage.blending => Loads = {}]_vars

\* after a swap, the second preload has put the third scene of the order in
\* input 0 while input 1 displays the second
C29_Witness ==
    /\ Inited /\ tick = "rotate"
    /\ storage.activeInput = 1
    /\ storage.currentSceneIdx = 1
    /\ storage.preloaded
    /\ NumScenes = 3
    /\ Issued(log, {"loadScene"})
    /\ slots = <<storage.sceneFiles[3], storage.sceneFiles[2]>>

----------------------------------------------------------------------------
\* the bounding sphere the stored manifest gives the scene file f
BoundingSphere(f) == GetSphere(storage.bounds, f)

(* C30: after every tick activeSphere is the bounding sphere of the scene   *)
(* file at currentSceneIdx, and while a blend is in progress targetSphere   *)
(* is the bounding sphere of the scene file at (currentSceneIdx + 1) mod N; *)
(* a rotation tick that ends with no blend in progress publishes            *)
(* activeSphere.                                                            *)
C30_SpheresFollowScenes ==
    Inited =>
        /\ storage.activeSphere = BoundingSphere(CurrentScene)
        /\ storage.blending => storage.targetSphere = BoundingSphere(NextScene)
        /\ Enabled /\ ~storage.blending =>
               PublishedSphere = ScaledSphere(storage.activeSphere)

\* the tick of a swap: the sphere published is the one of the scene that
\* has just become current, which the manifest lists
C30_Witness ==
    /\ Inited /\ tick = "rotate"
    /\ Issued(log, {"resetFeedbackTextures"})
    /\ ~storage.blending
    /\ storage.currentSceneIdx = 1
    /\ CurrentScene \in DOMAIN storage.bounds
    /\ storage.activeSphere = SphereOf(CurrentScene)
    /\ PublishedSphere = ScaledSphere(SphereOf(CurrentScene))

----------------------------------------------------------------------------
(* C31: on every enabled tick the published nextSceneIndex is (published   *)
(* sceneIndex + 1) mod N with both in 0..N-1, the published sceneIndex is  *)
(* the stored currentSceneIdx, and when the tick ends with no blend in     *)
(* progress the published switchIndex is the stored activeInput, 0 or 1.   *)
C31_PublishedIndices ==
    Enabled =>
        LET sceneIdx == Chan(chans, "sceneIndex")
            nextSceneIdx == Chan(chans, "nextSceneIndex")
        IN  /\ nextSceneIdx = (sceneIdx + 1) % NumScenes
            /\ sceneIdx \in 0..(NumScenes - 1)
            /\ nextSceneIdx \in 0..(NumScenes - 1)
            /\ sceneIdx = storage.currentSceneIdx
            /\ ~storage.blending =>
                   /\ storage.activeInput \in {0, 1}
                   /\ Chan(chans, "switchIndex") = storage.activeInput * Scale

\* the last scene of the list is on show in input 1: the next index wraps to 0
C31_Witness ==
    /\ tick = "rotate" /\ ~storage.blending
    /\ Chan(chans, "sceneIndex") = NumScenes - 1
    /\ Chan(chans, "nextSceneIndex") = 0
    /\ storage.activeInput = 1
    /\ Chan(chans, "switchIndex") = Scale

----------------------------------------------------------------------------
\* the tick took one of the two disabled exits (lines 150-152, 158-160)
DisabledTick == tick' \in {"noTimer", "fewScenes"}

(* C32: a disabled tick (no timer input, or fewer than two scenes listed)  *)
(* leaves the whole stored state as it was, prevFraction, blending,        *)
(* blendStartTime and the gate included, leaves both inputs loaded as they *)
(* were, and issues no command to any collaborator node.                   *)
C32_DisabledTickKeepsState ==
    [][DisabledTick =>
        /\ storage' = storage
        /\ slots' = slots
        /\ ~Issued(log', CommandOps)
        /\ Len(log') = 13]_vars

\* a tick with fewer than two scenes listed, met in the middle of a blend
C32_Witness ==
    /\ tick = "fewScenes"
    /\ Inited
    /\ storage.blending
    /\ storage.prevFraction >= BlendFrom
    /\ now > storage.blendStartTime
    /\ ~Issued(log, CommandOps)

----------------------------------------------------------------------------
\* fp is a fingerprint sampled from points, not the None of line 318
Sampled(fp) == fp # << >>

\* the waiting gate called the regeneration on the tick (lines 228-230)
GateFires == tick' = "rotate" /\ GateWaiting /\ Did("setRestPositions") # {}

(* C33: the consistency gate fires the regeneration only on a tick where a *)
(* fingerprint was sampled from the live data and differs from a sampled   *)
(* pre-swap fingerprint; a tick that finds the live data node missing or   *)
(* empty is never treated as a scene change.                               *)
C33_GateFiresOnSampledChange ==
    [][GateFires =>
        /\ Sampled(LiveFingerprint)
        /\ Sampled(storage.oldSceneFingerprint)
        /\ LiveFingerprint # storage.oldSceneFingerprint]_vars

\* what the code does: any inequality fires the gate, None on either side included
C33_GateFiresOnAnyDifference ==
    [][tick' = "rotate" /\ GateWaiting =>
        (Did("setRestPositions") # {} <=> LiveFingerprint # storage.oldSceneFingerprint)]_vars

\* the gate fired on a tick that found no live data, after a sampled capture
C33_FiredWithoutSample ==
    /\ tick = "rotate"
    /\ Inited /\ ~storage.waitingForSceneChange
    /\ Sampled(storage.oldSceneFingerprint)
    /\ log[1].op = "readFingerprint" /\ ~Sampled(log[1].b)
    /\ Issued(log, {"setRestPositions"})

----------------------------------------------------------------------------
\* the legacy tick reached _regenerateRestPositions() (line 138)
LegacyRegenerates == Did("regenerateRestPositions") # {}

(* C34: in the legacy scheduler, after a preload on tick k the rest        *)
(* position regeneration is triggered exactly once, on tick                *)
(* k + REST_REGEN_DELAY_FRAMES = k + 3, unless another preload restarts    *)
(* the countdown first: a tick regenerates exactly when it is the third    *)
(* tick after the last preload.                                            *)
C34_RegenThreeFramesAfterPreload ==
    [][LegacyRegenerates <=> framesSinceLoad' = REST_REGEN_DELAY_FRAMES]_vars

\* what the code does: the tick that regenerates is the rotating tick that
\* read a stored countdown of 0 at line 103, whatever it loads itself
C34_RegenOnStoredZero ==
    [][LegacyRegenerates <=>
          tick' = "rotate" /\ Get(storage, "regenCountdown", -1) = 0]_vars

\* the regeneration fired on the fourth tick after the preload
C34_RegenOnFourthFrame ==
    /\ tick = "rotate"
    /\ Issued(log, {"regenerateRestPositions"})
    /\ framesSinceLoad = REST_REGEN_DELAY_FRAMES + 1

\* a preload on the tick that fires the previous regeneration: the countdown
\* it starts is overwritten with -1, so its regeneration never comes
C34_RestartLost ==
    /\ tick = "rotate"
    /\ Issued(log, {"loadScene"})
    /\ Issued(log, {"regenerateRestPositions"})
    /\ framesSinceLoad = 0
    /\ storage.preloaded /\ storage.regenCountdown = -1

====
